---------------------------- MODULE Spec2Model ----------------------------
(***************************************************************************)
(* Model of the convoy leader's driving state (DrivingState.cpp): the      *)
(* track/line status machine, the start/end line debounce, the gap test    *)
(* and the steering computation, together with the collaborators it        *)
(* touches (drive, sound, yellow LED, odometry, timers, PID controller,    *)
(* outer state machine).                                                   *)
(*                                                                         *)
(* Every handler is a function from a "world" record to a world record,    *)
(* so that a caller (the state machine, the scheduler loop) composes them  *)
(* in the order of the code.  The effects of one handler call are logged   *)
(* in order in the field log, which makes the order of the calls inside    *)
(* one tick observable.                                                    *)
(***************************************************************************)
EXTENDS Integers, Sequences, FiniteSets, TLC

VARIABLES
    m_trackStatus,          \* DrivingState::m_trackStatus
    m_lineStatus,           \* DrivingState::m_lineStatus
    m_startEndLineDebounce, \* DrivingState::m_startEndLineDebounce
    m_posMovAvg,            \* DrivingState::m_posMovAvg, the samples kept
    m_topSpeed,             \* DrivingState::m_topSpeed
    m_observationTimer,     \* DrivingState::m_observationTimer
    m_pidProcessTime,       \* DrivingState::m_pidProcessTime
    m_lapTime,              \* DrivingState::m_lapTime
    m_pidCtrl,              \* DrivingState::m_pidCtrl
    maxMotorSpeed,          \* DifferentialDrive::getMaxMotorSpeed()
    linearSpeed,            \* DifferentialDrive: the commanded <<left, right>>
    yellowLed,              \* Board yellow LED (lost-track indicator)
    mileage,                \* Odometry::getMileageCenter()
    readyLapTime,           \* ReadyState: the lap time handed over
    smState,                \* StateMachine: the active outer state
    smNext,                 \* StateMachine: the requested next state
    m_controlInterval,      \* App::m_controlInterval
    m_reportTimer,          \* App::m_reportTimer
    m_serialMuxProtChannelIdCurrentVehicleData, \* App: the telemetry channel
    call,                   \* the handler that ran last, with its inputs
    trace                   \* the effects of that handler call, in order

vars == <<m_trackStatus, m_lineStatus, m_startEndLineDebounce, m_posMovAvg,
          m_topSpeed, m_observationTimer, m_pidProcessTime, m_lapTime,
          m_pidCtrl, maxMotorSpeed, linearSpeed, yellowLed, mileage,
          readyLapTime, smState, smNext, m_controlInterval, m_reportTimer,
          m_serialMuxProtChannelIdCurrentVehicleData, call, trace>>

(***************************************************************************)
(* Bounds of the model and program constants.                              *)
(***************************************************************************)

\* Durations and distances of DrivingState, scaled to a few time/distance
\* units (the real values are milliseconds and millimetres).
OBSERVATION_DURATION == 2
PID_PROCESS_PERIOD == 1
MAX_DISTANCE == 1
\* The lap timer's reading saturates here.
MaxLapDuration == 1
\* Number of detector evaluations followed by the debounce specification.
MaxEvals == 7

\* Periods of the scheduler loop, scaled to a few time units.
DIFFERENTIAL_DRIVE_CONTROL_PERIOD == 2
REPORTING_PERIOD == 3

\* isStartEndLineDetected
DEBOUNCE_CNT == 3
LINE_SENSOR_OFF_TRACK_VALUE == 200
\* The number of line sensor channels read by isStartEndLineDetected.
NUM_LINE_SENSORS == 5
\* ILineSensors::getSensorValueMax()
SENSOR_VALUE_MAX == 1000
\* Capacity of the position moving average.
MOVAVG_LEN == 2
\* sizeof(SpeedData): two int16_t
SPEED_SETPOINT_CHANNEL_DLC == 4

\* int16_t conversion (two's complement wrap).
ToInt16(x) == ((x + 32768) % 65536) - 32768

\* TrackStatus and LineStatus
TRACK_STATUS_ON_TRACK == "OnTrack"
TRACK_STATUS_LOST == "Lost"
TRACK_STATUS_FINISHED == "Finished"
TrackStatus == {TRACK_STATUS_ON_TRACK, TRACK_STATUS_LOST, TRACK_STATUS_FINISHED}

LINE_STATUS_FIND_START_LINE == "FindStartLine"
LINE_STATUS_START_LINE_DETECTED == "StartLineDetected"
LINE_STATUS_FIND_END_LINE == "FindEndLine"
LineStatus == {LINE_STATUS_FIND_START_LINE, LINE_STATUS_START_LINE_DETECTED,
               LINE_STATUS_FIND_END_LINE}

\* Rank of a LineStatus in the forward order.
LineRank(s) ==
    CASE s = LINE_STATUS_FIND_START_LINE -> 0
      [] s = LINE_STATUS_START_LINE_DETECTED -> 1
      [] OTHER -> 2

(***************************************************************************)
(* The inputs of the model.                                                *)
(***************************************************************************)

\* lineSensors.getSensorValues(): a null pointer is the empty sequence.
NullValues == <<>>
OnLine == <<0, 0, 1000, 0, 0>>
CrossLine == <<200, 200, 200, 200, 200>>
NearCross == <<200, 199, 200, 200, 200>>
SensorValueSets == {NullValues, OnLine, CrossLine}

\* lineSensors.readLine(): the line lost at the left edge, and the middle.
Positions == {0, 2000}
\* The positions the steering specification adds: the right edge.
SteerPositions == {0, 2000, 4000}

\* The top speeds of the parameter sets and the drive's maximum speed.
TopSpeeds == {2}
MaxMotorSpeeds == {3}

\* The outputs the PID controller may produce under the limits [lo, hi]: the
\* strongest correction to either side.
PidOutputs(lo, hi) == {lo, hi}

(***************************************************************************)
(* Effects: every call to a collaborator is appended to the log.           *)
(***************************************************************************)
Ev(e, a, b) == [e |-> e, a |-> a, b |-> b]

Log(w, e, a, b) == [w EXCEPT !.log = Append(@, Ev(e, a, b))]

\* DifferentialDrive::setLinearSpeed
setLinearSpeed(w, left, right) ==
    Log([w EXCEPT !.linearSpeed = <<left, right>>], "drive", left, right)

\* Sound::playAlarm, Sound::playBeep
playAlarm(w) == Log(w, "alarm", 0, 0)
playBeep(w) == Log(w, "beep", 0, 0)

\* ILed::enable of the yellow LED
ledEnable(w, on) ==
    Log([w EXCEPT !.yellowLed = on], "led", IF on THEN 1 ELSE 0, 0)

\* Odometry::clearMileage
clearMileage(w) == Log([w EXCEPT !.mileage = 0], "clearMileage", 0, 0)

\* StateMachine::setState(&ReadyState::getInstance())
setStateReady(w) == Log([w EXCEPT !.smNext = "Ready"], "setState", 0, 0)

\* ReadyState::setLapTime
setLapTime(w, duration) ==
    Log([w EXCEPT !.readyLapTime = duration], "setLapTime", duration, 0)

(***************************************************************************)
(* SimpleTimer: a timer is [running, remaining, elapsed]; time passing     *)
(* counts remaining down to 0 and elapsed up.                              *)
(***************************************************************************)
TimerStart(duration) == [running |-> TRUE, remaining |-> duration, elapsed |-> 0]
TimerStop(t) == [t EXCEPT !.running = FALSE]
TimerIsTimeout(t) == t.running /\ t.remaining = 0
TimerCurrentDuration(t) == t.elapsed
TimerInit == [running |-> FALSE, remaining |-> 0, elapsed |-> 0]
\* Time passing for a timer polled with isTimeout (its duration is never read).
TimerAdvance(t, dt) ==
    [t EXCEPT !.remaining = IF @ > dt THEN @ - dt ELSE 0]
\* Time passing for a timer read with getCurrentDuration (the lap timer).
TimerAdvanceDuration(t, dt) ==
    [t EXCEPT !.remaining = IF @ > dt THEN @ - dt ELSE 0,
              !.elapsed = IF @ + dt < MaxLapDuration THEN @ + dt ELSE MaxLapDuration]

(***************************************************************************)
(* MovAvg<int16_t, MOVAVG_LEN>: the last samples; the result is their      *)
(* truncated average.                                                      *)
(***************************************************************************)
RECURSIVE SeqSum(_)
SeqSum(s) == IF s = <<>> THEN 0 ELSE Head(s) + SeqSum(Tail(s))

MovAvgWrite(samples, value) ==
    IF Len(samples) < MOVAVG_LEN
    THEN Append(samples, value)
    ELSE Append(Tail(samples), value)

MovAvgResult(samples) ==
    IF samples = <<>> THEN 0 ELSE ToInt16(SeqSum(samples)) \div Len(samples)

(***************************************************************************)
(* PIDController: only what the driving state sets and calls.              *)
(***************************************************************************)
PidInit == [history |-> "cleared", min |-> 0, max |-> 0,
            derivativeOnMeasurement |-> FALSE, sampleTime |-> 0]

PidResync(p) == [p EXCEPT !.history = "resynced"]
PidCalculated(p) == [p EXCEPT !.history = "running"]


(***************************************************************************)
(* DrivingState                                                            *)
(***************************************************************************)
BoolInt(b) == IF b THEN 1 ELSE 0

TrackRank(s) ==
    CASE s = TRACK_STATUS_ON_TRACK -> 0
      [] s = TRACK_STATUS_LOST -> 1
      [] s = TRACK_STATUS_FINISHED -> 2
      [] OTHER -> 3

\* m_trackStatus = s; m_lineStatus = s (logged with the ranks of the old and
\* the new value)
setTrackStatus(w, s) ==
    Log([w EXCEPT !.trackStatus = s], "trackStatus", TrackRank(w.trackStatus), TrackRank(s))
setLineStatus(w, s) ==
    Log([w EXCEPT !.lineStatus = s], "lineStatus", LineRank(w.lineStatus), LineRank(s))

\* Arduino's constrain(amt, low, high)
constrain(amt, low, high) ==
    IF amt < low THEN low ELSE IF amt > high THEN high ELSE amt

\* The crossing condition asking every channel for the line, not the
\* average of the middle ones.
LineCrossingEachChannel(lineSensorValues) ==
    \A i \in 1 .. 5 : LINE_SENSOR_OFF_TRACK_VALUE <= lineSensorValues[i]

\* The crossing condition of isStartEndLineDetected: both outer sensors and
\* the average of the three middle sensors see the line.  The sum of the
\* three uint16_t values is taken in unsigned 16-bit arithmetic, the width
\* of int on the robot's 8-bit controller.
LineCrossing(lineSensorValues) ==
    LET leftSensor == lineSensorValues[1]
        middleSensor == ((lineSensorValues[2] + lineSensorValues[3] + lineSensorValues[4]) % 65536) \div 3
        rightSensor == lineSensorValues[5]
    IN  /\ LINE_SENSOR_OFF_TRACK_VALUE <= leftSensor
        /\ LINE_SENSOR_OFF_TRACK_VALUE <= middleSensor
        /\ LINE_SENSOR_OFF_TRACK_VALUE <= rightSensor

\* DebounceNext without the reset on a non-matching evaluation.
DebounceNextNoReset(debounce, matching) ==
    IF matching
    THEN IF DEBOUNCE_CNT > debounce THEN debounce + 1 ELSE debounce
    ELSE debounce

\* The debounce counter after one evaluation of isStartEndLineDetected.
DebounceNext(debounce, matching) ==
    IF matching
    THEN IF DEBOUNCE_CNT > debounce THEN debounce + 1 ELSE debounce
    ELSE 0

\* The value isStartEndLineDetected returns, given the counter it leaves.
DebounceDetected(debounce, matching) == matching /\ DEBOUNCE_CNT <= debounce

\* DrivingState::isStartEndLineDetected: the world after the call and the
\* value returned.
isStartEndLineDetected(w, lineSensorValues) ==
    LET matching == LineCrossing(lineSensorValues)
        debounce == DebounceNext(w.debounce, matching)
        isDetected == DebounceDetected(debounce, matching)
    IN  [w |-> Log([w EXCEPT !.debounce = debounce], "detect",
                   BoolInt(matching), BoolInt(isDetected)),
         isDetected |-> isDetected]

\* isTrackGapDetected missing the position at the right edge itself.
isTrackGapDetectedInside(position, numLineSensors) ==
    LET POS_MIN == 0
        POS_MAX == ToInt16((numLineSensors - 1) * 1000)
    IN  (POS_MIN >= position) \/ (POS_MAX < position)

\* DrivingState::isTrackGapDetected, with lineSensors.getNumLineSensors()
isTrackGapDetected(position, numLineSensors) ==
    LET POS_MIN == 0
        POS_MAX == ToInt16((numLineSensors - 1) * 1000)
    IN  (POS_MIN >= position) \/ (POS_MAX <= position)

\* SteeringSpeeds without the constrain to [0, topSpeed].
SteeringSpeedsNoConstrain(topSpeed, speedDifference) ==
    <<ToInt16(topSpeed - speedDifference), ToInt16(topSpeed + speedDifference)>>

\* The left and right speed adaptDriving computes from the PID output.
SteeringSpeeds(topSpeed, speedDifference) ==
    LET leftSpeed == ToInt16(topSpeed - speedDifference)
        rightSpeed == ToInt16(topSpeed + speedDifference)
    IN  <<constrain(leftSpeed, 0, topSpeed), constrain(rightSpeed, 0, topSpeed)>>

\* adaptDriving on line sensors whose getSensorValueMax() returns
\* sensorValueMax: the setpoint handed to the PID controller is twice that
\* value, the process variable is the position passed in.
adaptDrivingOn(w, sensorValueMax, position, speedDifference) ==
    LET w1 == Log([w EXCEPT !.pidCtrl = PidCalculated(@)], "calculate",
                  ToInt16(sensorValueMax * 2), position)
        speeds == SteeringSpeeds(w.topSpeed, speedDifference)
    IN  setLinearSpeed(w1, speeds[1], speeds[2])

\* DrivingState::adaptDriving; speedDifference is what m_pidCtrl.calculate
\* returns for the setpoint and the position.
adaptDriving(w, position, speedDifference) ==
    adaptDrivingOn(w, SENSOR_VALUE_MAX, position, speedDifference)

\* startEndLineDetected finishing on the end line with the motors running.
startEndLineDetectedNoStop(w) ==
    IF LINE_STATUS_FIND_START_LINE = w.lineStatus
    THEN [playBeep(setLineStatus(w, LINE_STATUS_START_LINE_DETECTED))
             EXCEPT !.lapTime = TimerStart(0)]
    ELSE IF LINE_STATUS_FIND_END_LINE = w.lineStatus
         THEN LET s2 == playBeep(w)
                  s3 == setTrackStatus(s2, TRACK_STATUS_FINISHED)
              IN  setLapTime(s3, TimerCurrentDuration(s3.lapTime))
         ELSE w

\* startEndLineDetected going from FindStartLine straight to FindEndLine.
startEndLineDetectedSkip(w) ==
    IF LINE_STATUS_FIND_START_LINE = w.lineStatus
    THEN [playBeep(setLineStatus(w, LINE_STATUS_FIND_END_LINE))
             EXCEPT !.lapTime = TimerStart(0)]
    ELSE IF LINE_STATUS_FIND_END_LINE = w.lineStatus
         THEN LET s1 == setLinearSpeed(w, 0, 0)
                  s2 == playBeep(s1)
                  s3 == setTrackStatus(s2, TRACK_STATUS_FINISHED)
              IN  setLapTime(s3, TimerCurrentDuration(s3.lapTime))
         ELSE w

\* startEndLineDetected without the start of the lap timer on the start line.
startEndLineDetectedNoLapTimer(w) ==
    IF LINE_STATUS_FIND_START_LINE = w.lineStatus
    THEN playBeep(setLineStatus(w, LINE_STATUS_START_LINE_DETECTED))
    ELSE IF LINE_STATUS_FIND_END_LINE = w.lineStatus
         THEN LET s1 == setLinearSpeed(w, 0, 0)
                  s2 == playBeep(s1)
                  s3 == setTrackStatus(s2, TRACK_STATUS_FINISHED)
              IN  setLapTime(s3, TimerCurrentDuration(s3.lapTime))
         ELSE w

\* DrivingState::processOnTrack, the start-/end line is detected.
startEndLineDetected(w) ==
    IF LINE_STATUS_FIND_START_LINE = w.lineStatus
    THEN [playBeep(setLineStatus(w, LINE_STATUS_START_LINE_DETECTED))
             EXCEPT !.lapTime = TimerStart(0)]
    ELSE IF LINE_STATUS_FIND_END_LINE = w.lineStatus
         THEN LET s1 == setLinearSpeed(w, 0, 0)
                  s2 == playBeep(s1)
                  s3 == setTrackStatus(s2, TRACK_STATUS_FINISHED)
              IN  setLapTime(s3, TimerCurrentDuration(s3.lapTime))
         ELSE w

\* DrivingState::processOnTrack, the start-/end line is not detected.
startEndLineNotDetected(w) ==
    IF LINE_STATUS_START_LINE_DETECTED = w.lineStatus
    THEN setLineStatus(w, LINE_STATUS_FIND_END_LINE)
    ELSE w

\* processOnTrackLine steering whatever the TrackStatus the detection left.
processOnTrackLineSteerFinished(w, position, lineSensorValues, speedDifference) ==
    LET d == isStartEndLineDetected(w, lineSensorValues)
        w2 == IF d.isDetected
              THEN startEndLineDetected(d.w)
              ELSE startEndLineNotDetected(d.w)
    IN  IF TimerIsTimeout(w2.pidProcessTime)
        THEN [adaptDriving(w2, position, speedDifference)
                 EXCEPT !.pidProcessTime = TimerStart(PID_PROCESS_PERIOD)]
        ELSE w2

\* processOnTrackLine steering on every tick, whatever the PID timer says.
processOnTrackLineEveryTick(w, position, lineSensorValues, speedDifference) ==
    LET d == isStartEndLineDetected(w, lineSensorValues)
        w2 == IF d.isDetected
              THEN startEndLineDetected(d.w)
              ELSE startEndLineNotDetected(d.w)
    IN  IF TRACK_STATUS_FINISHED # w2.trackStatus
        THEN [adaptDriving(w2, position, speedDifference)
                 EXCEPT !.pidProcessTime = TimerStart(PID_PROCESS_PERIOD)]
        ELSE w2

\* processOnTrackLine going on to FindEndLine while the start line is
\* still reported.
processOnTrackLineAdvanceOnMatch(w, position, lineSensorValues, speedDifference) ==
    LET d == isStartEndLineDetected(w, lineSensorValues)
        w2 == IF d.isDetected
              THEN IF LINE_STATUS_START_LINE_DETECTED = d.w.lineStatus
                   THEN setLineStatus(d.w, LINE_STATUS_FIND_END_LINE)
                   ELSE startEndLineDetected(d.w)
              ELSE startEndLineNotDetected(d.w)
    IN  IF TRACK_STATUS_FINISHED # w2.trackStatus /\ TimerIsTimeout(w2.pidProcessTime)
        THEN [adaptDriving(w2, position, speedDifference)
                 EXCEPT !.pidProcessTime = TimerStart(PID_PROCESS_PERIOD)]
        ELSE w2

\* DrivingState::processOnTrack, the branch without a track gap.
processOnTrackLine(w, position, lineSensorValues, speedDifference) ==
    LET d == isStartEndLineDetected(w, lineSensorValues)
        w2 == IF d.isDetected
              THEN startEndLineDetected(d.w)
              ELSE startEndLineNotDetected(d.w)
    IN  IF TRACK_STATUS_FINISHED # w2.trackStatus /\ TimerIsTimeout(w2.pidProcessTime)
        THEN [adaptDriving(w2, position, speedDifference)
                 EXCEPT !.pidProcessTime = TimerStart(PID_PROCESS_PERIOD)]
        ELSE w2

\* processOnTrack losing the track without clearing the mileage.
processOnTrackNoClear(w, position, lineSensorValues, speedDifference) ==
    IF lineSensorValues = NullValues
    THEN w
    ELSE IF isTrackGapDetected(MovAvgResult(w.posMovAvg), NUM_LINE_SENSORS)
         THEN ledEnable(setTrackStatus(w, TRACK_STATUS_LOST), TRUE)
         ELSE processOnTrackLine(w, position, lineSensorValues, speedDifference)

\* DrivingState::processOnTrack
processOnTrack(w, position, lineSensorValues, speedDifference) ==
    IF lineSensorValues = NullValues
    THEN w
    ELSE IF isTrackGapDetected(MovAvgResult(w.posMovAvg), NUM_LINE_SENSORS)
         THEN ledEnable(clearMileage(setTrackStatus(w, TRACK_STATUS_LOST)), TRUE)
         ELSE processOnTrackLine(w, position, lineSensorValues, speedDifference)

\* processTrackLost coming back on track without the resync of the PID.
processTrackLostNoResync(w, position, lineSensorValues) ==
    IF lineSensorValues = NullValues
    THEN w
    ELSE IF ~isTrackGapDetected(position, NUM_LINE_SENSORS)
         THEN ledEnable(setTrackStatus(w, TRACK_STATUS_ON_TRACK), FALSE)
         ELSE IF MAX_DISTANCE < w.mileage
              THEN setTrackStatus(playAlarm(setLinearSpeed(w, 0, 0)), TRACK_STATUS_FINISHED)
              ELSE setLinearSpeed(w, w.topSpeed, w.topSpeed)

\* processTrackLost searching on however far the robot has driven.
processTrackLostNoBudget(w, position, lineSensorValues) ==
    IF lineSensorValues = NullValues
    THEN w
    ELSE IF ~isTrackGapDetected(position, NUM_LINE_SENSORS)
         THEN LET w1 == setTrackStatus(w, TRACK_STATUS_ON_TRACK)
                  w2 == Log([w1 EXCEPT !.pidCtrl = PidResync(@)], "resync", 0, 0)
              IN  ledEnable(w2, FALSE)
         ELSE setLinearSpeed(w, w.topSpeed, w.topSpeed)

\* processTrackLost giving up as soon as the budget is reached.
processTrackLostAtBudget(w, position, lineSensorValues) ==
    IF lineSensorValues = NullValues
    THEN w
    ELSE IF ~isTrackGapDetected(position, NUM_LINE_SENSORS)
         THEN LET w1 == setTrackStatus(w, TRACK_STATUS_ON_TRACK)
                  w2 == Log([w1 EXCEPT !.pidCtrl = PidResync(@)], "resync", 0, 0)
              IN  ledEnable(w2, FALSE)
         ELSE IF MAX_DISTANCE <= w.mileage
              THEN setTrackStatus(playAlarm(setLinearSpeed(w, 0, 0)), TRACK_STATUS_FINISHED)
              ELSE setLinearSpeed(w, w.topSpeed, w.topSpeed)

\* processTrackLost looking at the distance before the position.
processTrackLostAbortFirst(w, position, lineSensorValues) ==
    IF lineSensorValues = NullValues
    THEN w
    ELSE IF MAX_DISTANCE < w.mileage
         THEN setTrackStatus(playAlarm(setLinearSpeed(w, 0, 0)), TRACK_STATUS_FINISHED)
         ELSE IF ~isTrackGapDetected(position, NUM_LINE_SENSORS)
              THEN LET w1 == setTrackStatus(w, TRACK_STATUS_ON_TRACK)
                       w2 == Log([w1 EXCEPT !.pidCtrl = PidResync(@)], "resync", 0, 0)
                   IN  ledEnable(w2, FALSE)
              ELSE setLinearSpeed(w, w.topSpeed, w.topSpeed)

\* processTrackLost coming back on track with the yellow LED left on.
processTrackLostKeepsLed(w, position, lineSensorValues) ==
    IF lineSensorValues = NullValues
    THEN w
    ELSE IF ~isTrackGapDetected(position, NUM_LINE_SENSORS)
         THEN LET w1 == setTrackStatus(w, TRACK_STATUS_ON_TRACK)
              IN  Log([w1 EXCEPT !.pidCtrl = PidResync(@)], "resync", 0, 0)
         ELSE IF MAX_DISTANCE < w.mileage
              THEN setTrackStatus(playAlarm(setLinearSpeed(w, 0, 0)), TRACK_STATUS_FINISHED)
              ELSE setLinearSpeed(w, w.topSpeed, w.topSpeed)

\* processTrackLost searching straight on when there are no sensor values.
processTrackLostNullSearches(w, position, lineSensorValues) ==
    IF lineSensorValues = NullValues
    THEN setLinearSpeed(w, w.topSpeed, w.topSpeed)
    ELSE IF ~isTrackGapDetected(position, NUM_LINE_SENSORS)
         THEN LET w1 == setTrackStatus(w, TRACK_STATUS_ON_TRACK)
                  w2 == Log([w1 EXCEPT !.pidCtrl = PidResync(@)], "resync", 0, 0)
              IN  ledEnable(w2, FALSE)
         ELSE IF MAX_DISTANCE < w.mileage
              THEN setTrackStatus(playAlarm(setLinearSpeed(w, 0, 0)), TRACK_STATUS_FINISHED)
              ELSE setLinearSpeed(w, w.topSpeed, w.topSpeed)

\* DrivingState::processTrackLost
processTrackLost(w, position, lineSensorValues) ==
    IF lineSensorValues = NullValues
    THEN w
    ELSE IF ~isTrackGapDetected(position, NUM_LINE_SENSORS)
         THEN LET w1 == setTrackStatus(w, TRACK_STATUS_ON_TRACK)
                  w2 == Log([w1 EXCEPT !.pidCtrl = PidResync(@)], "resync", 0, 0)
              IN  ledEnable(w2, FALSE)
         ELSE IF MAX_DISTANCE < w.mileage
              THEN setTrackStatus(playAlarm(setLinearSpeed(w, 0, 0)), TRACK_STATUS_FINISHED)
              ELSE setLinearSpeed(w, w.topSpeed, w.topSpeed)

\* processDispatch as an if/else: everything that is not OnTrack is Lost.
processDispatchIfElse(w, position, lineSensorValues, speedDifference) ==
    IF w.trackStatus = TRACK_STATUS_ON_TRACK
    THEN processOnTrack(w, position, lineSensorValues, speedDifference)
    ELSE processTrackLost(w, position, lineSensorValues)

\* processDispatch stopping the drive again on a Finished tick.
processDispatchFinishedStops(w, position, lineSensorValues, speedDifference) ==
    CASE w.trackStatus = TRACK_STATUS_ON_TRACK ->
            processOnTrack(w, position, lineSensorValues, speedDifference)
      [] w.trackStatus = TRACK_STATUS_LOST ->
            processTrackLost(w, position, lineSensorValues)
      [] w.trackStatus = TRACK_STATUS_FINISHED ->
            setStateReady(setLinearSpeed(w, 0, 0))
      [] OTHER ->
            setStateReady(playAlarm(setLinearSpeed(w, 0, 0)))

\* processDispatch ignoring a TrackStatus it does not know.
processDispatchNoDefault(w, position, lineSensorValues, speedDifference) ==
    CASE w.trackStatus = TRACK_STATUS_ON_TRACK ->
            processOnTrack(w, position, lineSensorValues, speedDifference)
      [] w.trackStatus = TRACK_STATUS_LOST ->
            processTrackLost(w, position, lineSensorValues)
      [] w.trackStatus = TRACK_STATUS_FINISHED ->
            setStateReady(w)
      [] OTHER ->
            w

\* DrivingState::process, the switch over m_trackStatus.
processDispatch(w, position, lineSensorValues, speedDifference) ==
    CASE w.trackStatus = TRACK_STATUS_ON_TRACK ->
            processOnTrack(w, position, lineSensorValues, speedDifference)
      [] w.trackStatus = TRACK_STATUS_LOST ->
            processTrackLost(w, position, lineSensorValues)
      [] w.trackStatus = TRACK_STATUS_FINISHED ->
            setStateReady(w)
      [] OTHER ->
            setStateReady(playAlarm(setLinearSpeed(w, 0, 0)))

\* processObservation handing the lap time over when it cuts the attempt off.
processObservationSetsLapTime(w) ==
    IF (TRACK_STATUS_FINISHED # w.trackStatus) /\ TimerIsTimeout(w.observationTimer)
    THEN LET s1 == playAlarm(setLinearSpeed(setTrackStatus(w, TRACK_STATUS_FINISHED), 0, 0))
         IN  setLapTime(s1, TimerCurrentDuration(s1.lapTime))
    ELSE w

\* processObservation finishing with the alarm, without stopping the drive.
processObservationNoStop(w) ==
    IF (TRACK_STATUS_FINISHED # w.trackStatus) /\ TimerIsTimeout(w.observationTimer)
    THEN playAlarm(setTrackStatus(w, TRACK_STATUS_FINISHED))
    ELSE w

\* DrivingState::process, the check of the observation timer after the switch.
processObservation(w) ==
    IF (TRACK_STATUS_FINISHED # w.trackStatus) /\ TimerIsTimeout(w.observationTimer)
    THEN playAlarm(setLinearSpeed(setTrackStatus(w, TRACK_STATUS_FINISHED), 0, 0))
    ELSE w

\* process checking the observation timer before the switch.
processCheckFirst(w, position, lineSensorValues, speedDifference) ==
    LET w1 == [w EXCEPT !.posMovAvg = MovAvgWrite(@, position)]
        w2 == processObservation(w1)
    IN  processDispatch(w2, position, lineSensorValues, speedDifference)

\* process without the check of the observation timer.
processNoObservation(w, position, lineSensorValues, speedDifference) ==
    LET w1 == [w EXCEPT !.posMovAvg = MovAvgWrite(@, position)]
    IN  processDispatch(w1, position, lineSensorValues, speedDifference)

\* DrivingState::process
process(w, position, lineSensorValues, speedDifference) ==
    LET w1 == [w EXCEPT !.posMovAvg = MovAvgWrite(@, position)]
        w2 == processDispatch(w1, position, lineSensorValues, speedDifference)
    IN  processObservation(w2)

\* entry keeping the TrackStatus the previous attempt ended in.
entryKeepsTrackStatus(w, parTopSpeed) ==
    [w EXCEPT !.observationTimer = TimerStart(OBSERVATION_DURATION),
              !.pidProcessTime = TimerStart(0),
              !.lineStatus = LINE_STATUS_FIND_START_LINE,
              !.posMovAvg = <<>>,
              !.topSpeed = parTopSpeed,
              !.pidCtrl = [history |-> "cleared",
                           min |-> ToInt16(-w.maxMotorSpeed),
                           max |-> w.maxMotorSpeed,
                           derivativeOnMeasurement |-> TRUE,
                           sampleTime |-> PID_PROCESS_PERIOD]]

\* DrivingState::entry, with the top speed of the selected parameter set.
entry(w, parTopSpeed) ==
    [w EXCEPT !.observationTimer = TimerStart(OBSERVATION_DURATION),
              !.pidProcessTime = TimerStart(0),
              !.lineStatus = LINE_STATUS_FIND_START_LINE,
              !.trackStatus = TRACK_STATUS_ON_TRACK,
              !.posMovAvg = <<>>,
              !.topSpeed = parTopSpeed,
              !.pidCtrl = [history |-> "cleared",
                           min |-> ToInt16(-w.maxMotorSpeed),
                           max |-> w.maxMotorSpeed,
                           derivativeOnMeasurement |-> TRUE,
                           sampleTime |-> PID_PROCESS_PERIOD]]

\* exit disabling the yellow LED only if the attempt ended Lost.
exitLedIfLost(w) ==
    LET w1 == [w EXCEPT !.observationTimer = TimerStop(@)]
    IN  IF w.trackStatus = TRACK_STATUS_LOST THEN ledEnable(w1, FALSE) ELSE w1

\* DrivingState::exit
exit(w) == ledEnable([w EXCEPT !.observationTimer = TimerStop(@)], FALSE)

(***************************************************************************)
(* The state machine of the driving state's life cycle.                    *)
(***************************************************************************)

\* The world a handler starts in: the variables, and an empty log.
World ==
    [trackStatus |-> m_trackStatus, lineStatus |-> m_lineStatus,
     debounce |-> m_startEndLineDebounce, posMovAvg |-> m_posMovAvg,
     topSpeed |-> m_topSpeed, observationTimer |-> m_observationTimer,
     pidProcessTime |-> m_pidProcessTime, lapTime |-> m_lapTime,
     pidCtrl |-> m_pidCtrl, maxMotorSpeed |-> maxMotorSpeed,
     linearSpeed |-> linearSpeed, yellowLed |-> yellowLed, mileage |-> mileage,
     readyLapTime |-> readyLapTime, smState |-> smState, smNext |-> smNext,
     controlInterval |-> m_controlInterval, reportTimer |-> m_reportTimer,
     channelId |-> m_serialMuxProtChannelIdCurrentVehicleData,
     log |-> <<>>]

\* The variables take the values of the world a handler leaves.
Commit(w) ==
    /\ m_trackStatus' = w.trackStatus
    /\ m_lineStatus' = w.lineStatus
    /\ m_startEndLineDebounce' = w.debounce
    /\ m_posMovAvg' = w.posMovAvg
    /\ m_topSpeed' = w.topSpeed
    /\ m_observationTimer' = w.observationTimer
    /\ m_pidProcessTime' = w.pidProcessTime
    /\ m_lapTime' = w.lapTime
    /\ m_pidCtrl' = w.pidCtrl
    /\ maxMotorSpeed' = w.maxMotorSpeed
    /\ linearSpeed' = w.linearSpeed
    /\ yellowLed' = w.yellowLed
    /\ mileage' = w.mileage
    /\ readyLapTime' = w.readyLapTime
    /\ smState' = w.smState
    /\ smNext' = w.smNext
    /\ m_controlInterval' = w.controlInterval
    /\ m_reportTimer' = w.reportTimer
    /\ m_serialMuxProtChannelIdCurrentVehicleData' = w.channelId
    /\ trace' = w.log

\* What is recorded of a handler call: its inputs and the state it found.
Call(op, position, lineSensorValues) ==
    [op |-> op, position |-> position, values |-> lineSensorValues,
     trackStatus |-> m_trackStatus, lineStatus |-> m_lineStatus,
     debounce |-> m_startEndLineDebounce,
     observationTimeout |-> TimerIsTimeout(m_observationTimer),
     mileage |-> mileage, yellowLed |-> yellowLed, linearSpeed |-> linearSpeed,
     pidTimeout |-> TimerIsTimeout(m_pidProcessTime), readyLapTime |-> readyLapTime]

\* The variables have the values of the world w.
StateIs(w) ==
    /\ m_trackStatus = w.trackStatus
    /\ m_lineStatus = w.lineStatus
    /\ m_startEndLineDebounce = w.debounce
    /\ m_posMovAvg = w.posMovAvg
    /\ m_topSpeed = w.topSpeed
    /\ m_observationTimer = w.observationTimer
    /\ m_pidProcessTime = w.pidProcessTime
    /\ m_lapTime = w.lapTime
    /\ m_pidCtrl = w.pidCtrl
    /\ maxMotorSpeed = w.maxMotorSpeed
    /\ linearSpeed = w.linearSpeed
    /\ yellowLed = w.yellowLed
    /\ mileage = w.mileage
    /\ readyLapTime = w.readyLapTime
    /\ smState = w.smState
    /\ smNext = w.smNext
    /\ m_controlInterval = w.controlInterval
    /\ m_reportTimer = w.reportTimer
    /\ m_serialMuxProtChannelIdCurrentVehicleData = w.channelId
    /\ trace = w.log

\* The world after construction, before the first entry, on a drive with
\* the given maximum motor speed.
InitWorld(maxSpeed) ==
    [trackStatus |-> TRACK_STATUS_ON_TRACK, lineStatus |-> LINE_STATUS_FIND_START_LINE,
     debounce |-> 0, posMovAvg |-> <<>>, topSpeed |-> 0,
     observationTimer |-> TimerInit, pidProcessTime |-> TimerInit,
     lapTime |-> TimerInit, pidCtrl |-> PidInit, maxMotorSpeed |-> maxSpeed,
     linearSpeed |-> <<0, 0>>, yellowLed |-> FALSE, mileage |-> 0,
     readyLapTime |-> 0, smState |-> "Startup", smNext |-> "None",
     controlInterval |-> TimerInit, reportTimer |-> TimerInit, channelId |-> 0,
     log |-> <<>>]

Init ==
    /\ \E maxSpeed \in MaxMotorSpeeds : StateIs(InitWorld(maxSpeed))
    /\ call = Call("init", 0, NullValues)

\* The state machine makes the driving state the active state: entry().
Entry ==
    /\ smState # "Driving"
    /\ \E parTopSpeed \in TopSpeeds :
          \E w \in {entry(World, parTopSpeed)} :
             Commit([w EXCEPT !.smState = "Driving", !.smNext = "None"])
    /\ call' = Call("entry", 0, NullValues)

\* One tick of the active driving state: process().
Process ==
    /\ smState = "Driving"
    /\ smNext = "None"
    /\ \E position \in Positions, lineSensorValues \in SensorValueSets,
          speedDifference \in PidOutputs(m_pidCtrl.min, m_pidCtrl.max) :
          /\ \E w \in {process(World, position, lineSensorValues, speedDifference)} : Commit(w)
          /\ call' = Call("process", position, lineSensorValues)

\* The state machine leaves the driving state for the requested one: exit().
Exit ==
    /\ smState = "Driving"
    /\ smNext = "Ready"
    /\ \E w \in {exit(World)} : Commit([w EXCEPT !.smState = "Ready", !.smNext = "None"])
    /\ call' = Call("exit", 0, NullValues)

\* The distances the robot may cover in one unit of time.
Moves == {0, 1, 2}

\* Time passes between two ticks and the robot may move on.
Advance ==
    /\ smState = "Driving"
    /\ smNext = "None"
    /\ \E moved \in Moves :
          Commit([World EXCEPT
                    !.observationTimer = TimerAdvance(@, 1),
                    !.pidProcessTime = TimerAdvance(@, 1),
                    !.lapTime = TimerAdvanceDuration(@, 1),
                    !.mileage = IF @ + moved > MAX_DISTANCE THEN MAX_DISTANCE + 1
                                ELSE @ + moved])
    /\ call' = Call("advance", 0, NullValues)

Next == Entry \/ Process \/ Exit \/ Advance

Spec == Init /\ [][Next]_vars

(***************************************************************************)
(* The life cycle with a damaged status: m_trackStatus is a plain enum     *)
(* member, and the switch of process() has a default branch for a value    *)
(* that is none of its enumerators.  No assignment of the state produces   *)
(* such a value; Upset puts it there between two ticks.                    *)
(***************************************************************************)
TRACK_STATUS_INVALID == "Invalid"

Upset ==
    /\ smState = "Driving"
    /\ smNext = "None"
    /\ m_trackStatus \in TrackStatus
    /\ Commit([World EXCEPT !.trackStatus = TRACK_STATUS_INVALID])
    /\ call' = Call("upset", 0, NullValues)

\* One attempt, from the state entry leaves.
InitFault ==
    /\ \E maxSpeed \in MaxMotorSpeeds, parTopSpeed \in TopSpeeds :
          StateIs([entry(InitWorld(maxSpeed), parTopSpeed) EXCEPT !.smState = "Driving"])
    /\ call = Call("entry", 0, NullValues)

NextFault == Process \/ Exit \/ Advance \/ Upset

SpecFault == InitFault /\ [][NextFault]_vars



(***************************************************************************)
(* The steering computation alone: the driving state is entered with any   *)
(* top speed on a drive with any maximum speed, and adaptDriving is        *)
(* applied to any position and any PID output within the limits.           *)
(***************************************************************************)
SteerTopSpeeds == {0, 1, 200, 32767}
SteerMaxSpeeds == {1, 400, 32767}
SteerOutputs(lo, hi) ==
    {v \in {lo, lo \div 2, -200, -1, 0, 1, 200, hi \div 2, hi} : lo <= v /\ v <= hi}

InitSteer ==
    /\ \E maxSpeed \in SteerMaxSpeeds, parTopSpeed \in SteerTopSpeeds :
          StateIs([entry(InitWorld(maxSpeed), parTopSpeed) EXCEPT !.smState = "Driving"])
    /\ call = Call("entry", 0, NullValues)

Steer ==
    /\ \E position \in SteerPositions,
          speedDifference \in SteerOutputs(m_pidCtrl.min, m_pidCtrl.max) :
          /\ \E w \in {adaptDriving(World, position, speedDifference)} : Commit(w)
          /\ call' = [op |-> "adaptDriving", position |-> position,
                      speedDifference |-> speedDifference]

NextSteer == Steer

SpecSteer == InitSteer /\ [][NextSteer]_vars

(***************************************************************************)
(* The start-/end line detector alone: isStartEndLineDetected is evaluated *)
(* on any sequence of sensor values, starting with the counter the         *)
(* constructor sets.  trace keeps the whole sequence of evaluations.       *)
(***************************************************************************)
DebounceValueSets == {OnLine, CrossLine, NearCross}

InitDebounce ==
    /\ \E maxSpeed \in MaxMotorSpeeds : StateIs(InitWorld(maxSpeed))
    /\ call = Call("init", 0, NullValues)

Evaluate ==
    /\ Len(trace) < MaxEvals
    /\ \E lineSensorValues \in DebounceValueSets :
          /\ \E d \in {isStartEndLineDetected([World EXCEPT !.log = trace], lineSensorValues)} :
                Commit(d.w)
          /\ call' = Call("isStartEndLineDetected", 0, lineSensorValues)

NextDebounce == Evaluate

SpecDebounce == InitDebounce /\ [][NextDebounce]_vars

(***************************************************************************)
(* The crossing condition alone: isStartEndLineDetected is called with any  *)
(* five channel values between 0 and the sensor maximum, once, on the      *)
(* state as constructed.  trace holds the evaluation.                      *)
(***************************************************************************)
ChannelValues ==
    {0, LINE_SENSOR_OFF_TRACK_VALUE - 1, LINE_SENSOR_OFF_TRACK_VALUE, SENSOR_VALUE_MAX}
CrossingValueSets ==
    {<<a, b, c, d, e>> : a \in ChannelValues, b \in ChannelValues, c \in ChannelValues,
                         d \in ChannelValues, e \in ChannelValues}

InitCrossing ==
    /\ \E maxSpeed \in MaxMotorSpeeds : StateIs(InitWorld(maxSpeed))
    /\ call = Call("init", 0, NullValues)

Cross ==
    /\ call.op = "init"
    /\ \E lineSensorValues \in CrossingValueSets :
          /\ \E d \in {isStartEndLineDetected(World, lineSensorValues)} : Commit(d.w)
          /\ call' = Call("isStartEndLineDetected", 0, lineSensorValues)

NextCrossing == Cross

SpecCrossing == InitCrossing /\ [][NextCrossing]_vars

(***************************************************************************)
(* The PID setpoint alone: adaptDriving runs on line sensors with any      *)
(* number of channels and any per-channel maximum value.  call holds what  *)
(* the line sensors report.                                                *)
(***************************************************************************)
SetpointSensorCounts == 2 .. 9
SensorValueMaxes == {500, 1000, 2000}

InitSetpoint ==
    /\ \E maxSpeed \in MaxMotorSpeeds, parTopSpeed \in TopSpeeds :
          StateIs([entry(InitWorld(maxSpeed), parTopSpeed) EXCEPT !.smState = "Driving"])
    /\ call = [op |-> "entry", numLineSensors |-> NUM_LINE_SENSORS,
               sensorValueMax |-> SENSOR_VALUE_MAX, position |-> 0]

Aim ==
    /\ \E numLineSensors \in SetpointSensorCounts, sensorValueMax \in SensorValueMaxes,
          position \in SteerPositions,
          speedDifference \in PidOutputs(m_pidCtrl.min, m_pidCtrl.max) :
          /\ \E w \in {adaptDrivingOn(World, sensorValueMax, position, speedDifference)} : Commit(w)
          /\ call' = [op |-> "adaptDriving", numLineSensors |-> numLineSensors,
                      sensorValueMax |-> sensorValueMax, position |-> position]

NextSetpoint == Aim

SpecSetpoint == InitSetpoint /\ [][NextSetpoint]_vars

(***************************************************************************)
(* One attempt with its history: the ticks of one attempt, from the state  *)
(* entry leaves with whatever the debounce counter held before (entry does *)
(* not assign it).  trace keeps, over the whole attempt, the evaluations   *)
(* of the detector, the changes of LineStatus and TrackStatus and the lap  *)
(* time handed over.  The ticks follow each other before any of the timers *)
(* elapses and before the robot has moved on: neither the timers nor the   *)
(* mileage are read by the detector or by the steps of LineStatus.         *)
(***************************************************************************)
\* The longest history a tick is started with.
MaxLineEvents == 8

LineEvents == {"detect", "lineStatus", "trackStatus", "setLapTime"}
IsLineEvent(ev) == ev.e \in LineEvents
LineValueSets == {OnLine, CrossLine}

InitLine ==
    /\ \E maxSpeed \in MaxMotorSpeeds, parTopSpeed \in TopSpeeds, debounce \in 0 .. DEBOUNCE_CNT :
          StateIs([entry(InitWorld(maxSpeed), parTopSpeed)
                      EXCEPT !.smState = "Driving", !.debounce = debounce])
    /\ call = Call("entry", 0, NullValues)

LineTick ==
    /\ smState = "Driving"
    /\ smNext = "None"
    /\ Len(trace) <= MaxLineEvents
    /\ \E position \in Positions, lineSensorValues \in LineValueSets,
          speedDifference \in {m_pidCtrl.max} :
          /\ \E w \in {process(World, position, lineSensorValues, speedDifference)} :
                Commit([w EXCEPT !.log = trace \o SelectSeq(w.log, IsLineEvent)])
          /\ call' = Call("process", position, lineSensorValues)

NextLine == LineTick

SpecLine == InitLine /\ [][NextLine]_vars

(***************************************************************************)
(* One attempt under a scheduler that keeps running: App::loop calls the   *)
(* step of the active state in every iteration, and the timers follow the  *)
(* clock, so a tick that is due is eventually made and time that can pass  *)
(* eventually passes.  The inputs of the ticks are not constrained.  Of a   *)
(* tick only the TrackStatus and the state of the observation timer it     *)
(* found are recorded.                                                     *)
(***************************************************************************)
CutoffCall(op) ==
    [op |-> op, trackStatus |-> m_trackStatus,
     observationTimeout |-> TimerIsTimeout(m_observationTimer)]

InitCutoff ==
    /\ \E maxSpeed \in MaxMotorSpeeds, parTopSpeed \in TopSpeeds :
          StateIs([entry(InitWorld(maxSpeed), parTopSpeed) EXCEPT !.smState = "Driving"])
    /\ call = CutoffCall("entry")

CutoffProcess ==
    /\ smState = "Driving"
    /\ smNext = "None"
    /\ \E position \in Positions, lineSensorValues \in SensorValueSets,
          speedDifference \in PidOutputs(m_pidCtrl.min, m_pidCtrl.max) :
          \E w \in {process(World, position, lineSensorValues, speedDifference)} :
             Commit([w EXCEPT !.log = <<>>])
    /\ call' = CutoffCall("process")

CutoffAdvance ==
    /\ smState = "Driving"
    /\ smNext = "None"
    /\ \E moved \in Moves :
          Commit([World EXCEPT
                    !.observationTimer = TimerAdvance(@, 1),
                    !.pidProcessTime = TimerAdvance(@, 1),
                    !.lapTime = TimerAdvanceDuration(@, 1),
                    !.mileage = IF @ + moved > MAX_DISTANCE THEN MAX_DISTANCE + 1
                                ELSE @ + moved])
    /\ call' = CutoffCall("advance")

NextCutoff == CutoffProcess \/ CutoffAdvance

SpecCutoff ==
    InitCutoff /\ [][NextCutoff]_vars /\ WF_vars(CutoffProcess) /\ WF_vars(CutoffAdvance)

(***************************************************************************)
(* The gap test alone: isTrackGapDetected is called with any position on   *)
(* line sensors with any number of channels (getNumLineSensors() returns   *)
(* a uint8_t).  trace holds the number of channels and the value returned. *)
(***************************************************************************)
\* The largest number of channels tried, besides the largest uint8_t.
MaxNumLineSensors == 34
GapSensorCounts == (2 .. MaxNumLineSensors) \cup {255}

\* The positions tried with n channels: the ends of the int16_t range, and
\* the values at and next to 0, the middle and (n - 1) * 1000.
GapPositions(n) ==
    {p \in {-32768, -1, 0, 1, (n - 1) * 500, (n - 1) * 1000 - 1, (n - 1) * 1000,
            (n - 1) * 1000 + 1, 32767} : -32768 <= p /\ p <= 32767}

InitGap ==
    /\ \E maxSpeed \in MaxMotorSpeeds : StateIs(InitWorld(maxSpeed))
    /\ call = Call("init", 0, NullValues)

GapTest ==
    /\ \E numLineSensors \in GapSensorCounts :
          \E position \in GapPositions(numLineSensors) :
             /\ trace' = <<Ev("gap", numLineSensors,
                              BoolInt(isTrackGapDetected(position, numLineSensors)))>>
             /\ call' = Call("isTrackGapDetected", position, NullValues)
    /\ UNCHANGED <<m_trackStatus, m_lineStatus, m_startEndLineDebounce, m_posMovAvg,
                   m_topSpeed, m_observationTimer, m_pidProcessTime, m_lapTime,
                   m_pidCtrl, maxMotorSpeed, linearSpeed, yellowLed, mileage,
                   readyLapTime, smState, smNext, m_controlInterval, m_reportTimer,
                   m_serialMuxProtChannelIdCurrentVehicleData>>

NextGap == GapTest

SpecGap == InitGap /\ [][NextGap]_vars

(***************************************************************************)
(* App: setup and the scheduler loop.  One Loop step is one call of        *)
(* App::loop, with the command the server finds on the stream, if any, and *)
(* the inputs of the outer state's step.                                   *)
(***************************************************************************)

\* A frame for the speed setpoint channel: the payload pointer may be null,
\* else it points to the bytes; the size is given separately.
Command(isNull, bytes, payloadSize) ==
    [isNull |-> isNull, bytes |-> bytes, payloadSize |-> payloadSize]
NoCommand == Command(TRUE, <<>>, 0)
NullCommand == Command(TRUE, <<>>, SPEED_SETPOINT_CHANNEL_DLC)
LongCommand == Command(FALSE, <<1, 0, 2, 0, 0>>, 5)
FastCommand == Command(FALSE, <<255, 127, 0, 128>>, SPEED_SETPOINT_CHANNEL_DLC)
MalformedCommands == {NullCommand, LongCommand}
Commands == MalformedCommands \cup {FastCommand}

\* reinterpret_cast<const SpeedData*>(payload): two little endian int16_t.
SpeedDataOf(bytes) ==
    [left |-> ToInt16(bytes[1] + 256 * bytes[2]),
     right |-> ToInt16(bytes[3] + 256 * bytes[4])]

\* The ids createChannel may return: 0 if the channel could not be created.
ChannelIds == {0, 1}

\* The inputs of the driving state's tick inside the loop.
LoopPositions == {0, 2000}
LoopSensorValueSets == {OnLine}

\* App_motorSpeedSetpointsChannelCallback accepting a payload of any size.
App_motorSpeedSetpointsChannelCallbackAnySize(w, payload) ==
    IF (~payload.isNull) /\ Len(payload.bytes) >= SPEED_SETPOINT_CHANNEL_DLC
    THEN LET motorSpeedData == SpeedDataOf(payload.bytes)
         IN  setLinearSpeed(w, motorSpeedData.left, motorSpeedData.right)
    ELSE w

\* App_motorSpeedSetpointsChannelCallback
App_motorSpeedSetpointsChannelCallback(w, payload) ==
    IF (~payload.isNull) /\ (SPEED_SETPOINT_CHANNEL_DLC = payload.payloadSize)
    THEN LET motorSpeedData == SpeedDataOf(payload.bytes)
         IN  setLinearSpeed(w, motorSpeedData.left, motorSpeedData.right)
    ELSE w

\* SerialMuxProtServer::process: a frame received for the subscribed channel
\* is handed to the callback.
smpServerProcess(w, command) ==
    LET w1 == Log(w, "smpProcess", 0, 0)
    IN  IF command = NoCommand THEN w1
        ELSE App_motorSpeedSetpointsChannelCallback(w1, command)

\* App::reportVehicleData: the snapshot goes out on the telemetry channel.
reportVehicleData(w) == Log(w, "sendData", w.channelId, 0)

\* A state other than the driving state makes its step; in the end one of
\* them asks for the driving state.
otherStateProcess(w, requestDriving) ==
    IF requestDriving THEN [w EXCEPT !.smNext = "Driving"] ELSE w

\* StateMachine::process: a requested state is made the active one (exit of
\* the old one, entry of the new one), then the active state makes one step.
stateMachineProcess(w, parTopSpeed, position, lineSensorValues, speedDifference, requestDriving) ==
    LET w1 == IF w.smNext # "None"
              THEN LET left == IF w.smState = "Driving" THEN Log(exit(w), "exit", 0, 0)
                               ELSE w
                       changed == [left EXCEPT !.smState = w.smNext, !.smNext = "None"]
                   IN  IF changed.smState = "Driving"
                       THEN Log(entry(changed, parTopSpeed), "entry", 0, 0)
                       ELSE changed
              ELSE w
        w2 == Log(w1, "stateProcess", 0, 0)
    IN  IF w2.smState = "Driving"
        THEN process(w2, position, lineSensorValues, speedDifference)
        ELSE otherStateProcess(w2, requestDriving)

\* setup starting the report timer whatever createChannel returned.
setupAlwaysReports(w, channelId) ==
    [w EXCEPT !.smState = "None", !.smNext = "Startup",
              !.controlInterval = TimerStart(DIFFERENTIAL_DRIVE_CONTROL_PERIOD),
              !.channelId = channelId,
              !.reportTimer = TimerStart(REPORTING_PERIOD)]

\* App::setup, with the id createChannel returns.
setup(w, channelId) ==
    LET w1 == [w EXCEPT !.smState = "None", !.smNext = "Startup",
                        !.controlInterval = TimerStart(DIFFERENTIAL_DRIVE_CONTROL_PERIOD),
                        !.channelId = channelId]
    IN  IF 0 # w1.channelId
        THEN [w1 EXCEPT !.reportTimer = TimerStart(REPORTING_PERIOD)]
        ELSE w1

\* loopControl updating the odometry before the drive is actuated.
loopControlOdometryFirst(w) ==
    IF TimerIsTimeout(w.controlInterval)
    THEN LET w1 == Log(w, "odometryProcess", 0, 0)
             w2 == Log(w1, "driveProcess", DIFFERENTIAL_DRIVE_CONTROL_PERIOD, 0)
         IN  Log([w2 EXCEPT !.controlInterval = TimerStart(DIFFERENTIAL_DRIVE_CONTROL_PERIOD)],
                 "controlRestart", 0, 0)
    ELSE w

\* App::loop, the control step.
loopControl(w) ==
    IF TimerIsTimeout(w.controlInterval)
    THEN LET w1 == Log(w, "driveProcess", DIFFERENTIAL_DRIVE_CONTROL_PERIOD, 0)
             w2 == Log(w1, "odometryProcess", 0, 0)
         IN  Log([w2 EXCEPT !.controlInterval = TimerStart(DIFFERENTIAL_DRIVE_CONTROL_PERIOD)],
                 "controlRestart", 0, 0)
    ELSE w

\* App::loop, the report step.
loopReport(w) ==
    IF TimerIsTimeout(w.reportTimer)
    THEN LET w1 == reportVehicleData(w)
         IN  Log([w1 EXCEPT !.reportTimer = TimerStart(REPORTING_PERIOD)],
                 "reportRestart", 0, 0)
    ELSE w

\* loop advancing the outer state inside the control step only.
loopStateOnControl(w, command, parTopSpeed, position, lineSensorValues, speedDifference, requestDriving) ==
    LET w1 == smpServerProcess(w, command)
        w2 == Log(w1, "speedometer", 0, 0)
        w3 == loopControl(w2)
        w4 == loopReport(w3)
    IN  IF TimerIsTimeout(w2.controlInterval)
        THEN stateMachineProcess(Log(w4, "smProcess", 0, 0), parTopSpeed, position,
                                 lineSensorValues, speedDifference, requestDriving)
        ELSE w4

\* App::loop
loop(w, command, parTopSpeed, position, lineSensorValues, speedDifference, requestDriving) ==
    LET w1 == smpServerProcess(w, command)
        w2 == Log(w1, "speedometer", 0, 0)
        w3 == loopControl(w2)
        w4 == loopReport(w3)
        w5 == Log(w4, "smProcess", 0, 0)
    IN  stateMachineProcess(w5, parTopSpeed, position, lineSensorValues,
                            speedDifference, requestDriving)

\* What is recorded of a call of the loop: besides the inputs and the state
\* of the driving state, the command and the state the loop found.
LoopCall(command, position, lineSensorValues) ==
    [op |-> "loop", position |-> position, values |-> lineSensorValues,
     trackStatus |-> m_trackStatus, lineStatus |-> m_lineStatus,
     debounce |-> m_startEndLineDebounce,
     observationTimeout |-> TimerIsTimeout(m_observationTimer),
     mileage |-> mileage, yellowLed |-> yellowLed, command |-> command,
     controlTimeout |-> TimerIsTimeout(m_controlInterval),
     reportTimeout |-> TimerIsTimeout(m_reportTimer),
     linearSpeed |-> linearSpeed, smState |-> smState, smNext |-> smNext]

InitApp ==
    /\ \E maxSpeed \in MaxMotorSpeeds, channelId \in ChannelIds :
          StateIs(setup(InitWorld(maxSpeed), channelId))
    /\ call = Call("setup", 0, NullValues)

\* The driving state is the one that makes the step of the next iteration.
DrivingSteps == IF smNext = "None" THEN smState = "Driving" ELSE smNext = "Driving"

\* One iteration of the scheduler.  The inputs the step of the active state
\* does not read are fixed.
Loop ==
    \E command \in Commands \cup {NoCommand}, parTopSpeed \in TopSpeeds,
       position \in IF DrivingSteps THEN LoopPositions ELSE {0},
       lineSensorValues \in IF DrivingSteps THEN LoopSensorValueSets ELSE {NullValues},
       speedDifference \in IF ~DrivingSteps THEN {0}
                           ELSE IF smNext = "None"
                                THEN PidOutputs(m_pidCtrl.min, m_pidCtrl.max)
                                ELSE PidOutputs(ToInt16(-maxMotorSpeed), maxMotorSpeed),
       requestDriving \in IF DrivingSteps THEN {FALSE} ELSE BOOLEAN :
       /\ \E w \in {loop(World, command, parTopSpeed, position, lineSensorValues,
                         speedDifference, requestDriving)} : Commit(w)
       /\ call' = LoopCall(command, position, lineSensorValues)

\* Time passes between two iterations; the robot moves on while driving.
AdvanceApp ==
    /\ \E moved \in {1} :
          Commit([World EXCEPT
                    !.controlInterval = TimerAdvance(@, 1),
                    !.reportTimer = TimerAdvance(@, 1),
                    !.observationTimer = IF smState = "Driving" THEN TimerAdvance(@, 1) ELSE @,
                    !.pidProcessTime = IF smState = "Driving" THEN TimerAdvance(@, 1) ELSE @,
                    !.lapTime = IF smState = "Driving" THEN TimerAdvanceDuration(@, 1) ELSE @,
                    !.mileage = IF smState # "Driving" THEN @
                                ELSE IF @ + moved > MAX_DISTANCE THEN MAX_DISTANCE + 1
                                ELSE @ + moved])
    /\ call' = Call("advance", 0, NullValues)

NextApp == Loop \/ AdvanceApp

SpecApp == InitApp /\ [][NextApp]_vars

(***************************************************************************)
(* The inbound command alone: the server polls the stream while the        *)
(* driving state is active and finds a frame for the speed setpoint        *)
(* channel, with any payload.                                              *)
(***************************************************************************)
PayloadBytes == {1, 255}
PolledCommands ==
    {NullCommand, LongCommand}
       \cup {Command(FALSE, <<b1, b2, b3>>, 3) : b1, b2, b3 \in {0, 255}}
       \cup {Command(FALSE, <<b1, b2, b3, b4>>, SPEED_SETPOINT_CHANNEL_DLC) :
                b1, b2, b3, b4 \in PayloadBytes}
       \cup {FastCommand}

InitCommand ==
    /\ \E maxSpeed \in MaxMotorSpeeds, channelId \in ChannelIds, parTopSpeed \in TopSpeeds :
          StateIs([entry(setup(InitWorld(maxSpeed), channelId), parTopSpeed)
                      EXCEPT !.smState = "Driving", !.smNext = "None"])
    /\ call = Call("entry", 0, NullValues)

Poll ==
    \E command \in PolledCommands :
       /\ \E w \in {smpServerProcess(World, command)} : Commit(w)
       /\ call' = [op |-> "smpServerProcess", command |-> command, before |-> World]

NextCommand == Poll

SpecCommand == InitCommand /\ [][NextCommand]_vars

(***************************************************************************)
(* Reading the trace of the last handler call.                             *)
(***************************************************************************)
Has(e) == \E i \in DOMAIN trace : trace[i].e = e
Count(e) == Cardinality({i \in DOMAIN trace : trace[i].e = e})
HasEvent(ev) == \E i \in DOMAIN trace : trace[i] = ev
DriveIndexes == {i \in DOMAIN trace : trace[i].e = "drive"}
LastDrive == CHOOSE i \in DriveIndexes : \A j \in DriveIndexes : j <= i
StopEvent == Ev("drive", 0, 0)
LastDriveIsStop == DriveIndexes # {} /\ trace[LastDrive] = StopEvent
FinishedRank == TrackRank(TRACK_STATUS_FINISHED)

\* The last call was a process tick / a process tick that found the state
\* machine not finished and the observation timer elapsed.
ProcessTick == call.op = "process"
CutoffTick ==
    ProcessTick /\ call.trackStatus # TRACK_STATUS_FINISHED /\ call.observationTimeout

(***************************************************************************)
(* Claims                                                                  *)
(***************************************************************************)

\* C1: within one attempt (every step but entry) LineStatus never moves back
\* and never skips a value: a process tick leaves it or advances it by one
\* step of FindStartLine -> StartLineDetected -> FindEndLine, and every
\* assignment to it inside the tick is one such step; no other step of the
\* attempt changes it.
C1_LineStatusForward ==
    /\ ProcessTick =>
          /\ LineRank(m_lineStatus) - LineRank(call.lineStatus) \in {0, 1}
          /\ \A i \in DOMAIN trace :
                trace[i].e = "lineStatus" => trace[i].b = trace[i].a + 1
    /\ call.op \in {"advance", "exit"} => m_lineStatus = call.lineStatus

\* C1 witness: a tick has advanced StartLineDetected to FindEndLine.
C1_Witness ==
    /\ ProcessTick
    /\ call.lineStatus = LINE_STATUS_START_LINE_DETECTED
    /\ m_lineStatus = LINE_STATUS_FIND_END_LINE

\* C2: within one attempt every assignment to TrackStatus goes along
\* OnTrack->Lost, Lost->OnTrack, OnTrack->Finished or Lost->Finished, and
\* a step that finds TrackStatus Finished (a process tick, time passing,
\* exit) leaves it Finished.
C2_TrackStatusEdges ==
    /\ \A i \in DOMAIN trace :
          trace[i].e = "trackStatus" =>
             <<trace[i].a, trace[i].b>> \in {<<0, 1>>, <<1, 0>>, <<0, 2>>, <<1, 2>>}
    /\ (call.op \in {"process", "advance", "exit"}
           /\ call.trackStatus = TRACK_STATUS_FINISHED)
          => m_trackStatus = TRACK_STATUS_FINISHED
    /\ call.op \in {"advance", "exit"} => m_trackStatus = call.trackStatus

\* C2 witness: a process tick has run with TrackStatus Finished, reached
\* from Lost.
C2_Witness ==
    /\ ProcessTick
    /\ call.trackStatus = TRACK_STATUS_FINISHED
    /\ m_trackStatus = TRACK_STATUS_FINISHED
    /\ yellowLed

\* C3: the speeds adaptDriving hands to the drive both lie in
\* [0, topSpeed], for every PID output within [-maxMotorSpeed, maxMotorSpeed]
\* and every position.
C3_SteeringInRange ==
    call.op = "adaptDriving" =>
       /\ Count("drive") = 1
       /\ \A i \in DriveIndexes :
             /\ 0 <= trace[i].a /\ trace[i].a <= m_topSpeed
             /\ 0 <= trace[i].b /\ trace[i].b <= m_topSpeed
       /\ linearSpeed = <<trace[LastDrive].a, trace[LastDrive].b>>

\* C3 witness: a steering command where topSpeed - speedDifference leaves
\* the 16 bit range and the difference exceeds the top speed.
C3_Witness ==
    /\ call.op = "adaptDriving"
    /\ m_topSpeed = 32767
    /\ linearSpeed = <<0, 32766>>

EndLineFinish == Has("setLapTime") /\ Has("beep") /\ HasEvent(Ev("trackStatus", 0, FinishedRank))

CutoffFired ==
    /\ Len(trace) >= 3
    /\ trace[Len(trace) - 2].e = "trackStatus" /\ trace[Len(trace) - 2].b = FinishedRank
    /\ trace[Len(trace) - 1] = StopEvent
    /\ trace[Len(trace)] = Ev("alarm", 0, 0)

\* The switch of the tick has finished the attempt itself.
DispatchFinished ==
    \/ EndLineFinish
    \/ trace = <<StopEvent, Ev("alarm", 0, 0), Ev("trackStatus", 1, FinishedRank)>>

ThreeMatches(i) == i >= 3 /\ \A j \in (i - 2) .. i : trace[j].a = 1

\* C6: evaluating the detector on any sequence of values, from a counter of
\* 0: the detector reports detected on an evaluation exactly when that
\* evaluation and the two before it matched (so from the 3rd matching one
\* on, and on every further matching one), a run of just two matching
\* evaluations followed by a non-matching one reports detected on none of
\* the three, and the counter never exceeds 3.
C6_Debounce ==
    /\ \A i \in DOMAIN trace : (trace[i].b = 1) <=> ThreeMatches(i)
    /\ \A i \in DOMAIN trace :
          (/\ i >= 3
           /\ trace[i].a = 0 /\ trace[i - 1].a = 1 /\ trace[i - 2].a = 1
           /\ (i >= 4 => trace[i - 3].a = 0))
          => \A j \in (i - 2) .. i : trace[j].b = 0
    /\ m_startEndLineDebounce \in 0 .. DEBOUNCE_CNT

\* C6 witness: two matches, a non-match, then four matches: detected on the
\* last two only.
C6_Witness ==
    /\ Len(trace) = 7
    /\ [i \in 1 .. 7 |-> trace[i].a] = <<1, 1, 0, 1, 1, 1, 1>>
    /\ [i \in 1 .. 7 |-> trace[i].b] = <<0, 0, 0, 0, 0, 1, 1>>

\* C7: after entry the debounce counter is 0 and the position filter is
\* empty, whatever they were before.
C7_EntryClearsDebounce ==
    call.op = "entry" => (m_startEndLineDebounce = 0 /\ m_posMovAvg = <<>>)

\* C8: the debounce counter is 0 after every process tick whose sensor
\* values do not satisfy the crossing condition, whatever the TrackStatus.
C8_ResetOnEveryNonMatch ==
    (ProcessTick /\ call.values # NullValues /\ ~LineCrossing(call.values))
       => m_startEndLineDebounce = 0

\* C9: the PID resync is invoked exactly once in a tick whose switch takes
\* TrackStatus from Lost to OnTrack (a Lost tick with sensor values whose
\* raw position shows no gap) and in no other tick or handler.
C9_ResyncOnRecovery ==
    /\ Count("resync") = Cardinality({i \in DOMAIN trace : trace[i] = Ev("trackStatus", 1, 0)})
    /\ Count("resync") <= 1
    /\ ~ProcessTick => ~Has("resync")
    /\ ProcessTick =>
          (Has("resync") <=>
              /\ call.trackStatus = TRACK_STATUS_LOST
              /\ call.values # NullValues
              /\ ~isTrackGapDetected(call.position, NUM_LINE_SENSORS))
    /\ Has("resync") => m_pidCtrl.history = "resynced"

\* C9 witness: a Lost tick has come back on track and resynced the PID.
C9_Witness ==
    /\ ProcessTick
    /\ call.trackStatus = TRACK_STATUS_LOST
    /\ m_trackStatus = TRACK_STATUS_ON_TRACK
    /\ Has("resync")

\* An OnTrack tick with sensor values whose filtered position shows a gap.
GapTick ==
    /\ ProcessTick
    /\ call.trackStatus = TRACK_STATUS_ON_TRACK
    /\ call.values # NullValues
    /\ isTrackGapDetected(MovAvgResult(m_posMovAvg), NUM_LINE_SENSORS)

\* C10: on an OnTrack tick with sensor values and a gap in the filtered
\* position, TrackStatus is set to Lost, the mileage is cleared and the
\* yellow LED is enabled, in this order; the detector is not evaluated,
\* LineStatus and the debounce counter are unchanged and there is no
\* steering; TrackStatus is Lost at the end of the tick unless the
\* observation timer finishes the attempt in it.
C10_GapLosesTrack ==
    GapTick =>
       /\ Len(trace) >= 3
       /\ SubSeq(trace, 1, 3) = <<Ev("trackStatus", 0, 1), Ev("clearMileage", 0, 0),
                                  Ev("led", 1, 0)>>
       /\ mileage = 0
       /\ yellowLed
       /\ ~Has("detect")
       /\ m_startEndLineDebounce = call.debounce
       /\ ~Has("lineStatus")
       /\ m_lineStatus = call.lineStatus
       /\ ~Has("calculate")
       /\ \A i \in DriveIndexes : trace[i] = StopEvent /\ call.observationTimeout
       /\ m_trackStatus = IF call.observationTimeout THEN TRACK_STATUS_FINISHED
                          ELSE TRACK_STATUS_LOST

\* C10 witness: the track is lost after the robot has driven a distance and
\* two crossing ticks have been counted.
C10_Witness ==
    /\ GapTick
    /\ m_trackStatus = TRACK_STATUS_LOST
    /\ call.mileage > 0
    /\ call.debounce = 2

\* A Lost tick with sensor values whose raw position still shows a gap,
\* after the robot has driven more than MAX_DISTANCE since the track was lost.
LostBudgetTick ==
    /\ ProcessTick
    /\ call.trackStatus = TRACK_STATUS_LOST
    /\ call.values # NullValues
    /\ isTrackGapDetected(call.position, NUM_LINE_SENSORS)
    /\ call.mileage > MAX_DISTANCE

\* C11: on a Lost tick with a gap in the raw position and a mileage above
\* MAX_DISTANCE the drive is stopped, the alarm is sounded and TrackStatus
\* becomes Finished, in this order and with nothing else: no lap time is
\* handed over, no search command, no beep.
C11_LostBudgetAborts ==
    LostBudgetTick =>
       /\ trace = <<StopEvent, Ev("alarm", 0, 0), Ev("trackStatus", 1, FinishedRank)>>
       /\ linearSpeed = <<0, 0>>
       /\ m_trackStatus = TRACK_STATUS_FINISHED
       /\ ~Has("setLapTime")

\* C11 witness: the search has been aborted after the robot has driven
\* beyond the budget with the yellow LED on.
C11_Witness ==
    /\ LostBudgetTick
    /\ yellowLed
    /\ trace[1] = StopEvent
    /\ m_trackStatus = TRACK_STATUS_FINISHED
    /\ Has("alarm")

\* An OnTrack tick with sensor values and no gap in the filtered position.
OnLineTick ==
    /\ ProcessTick
    /\ call.trackStatus = TRACK_STATUS_ON_TRACK
    /\ call.values # NullValues
    /\ ~isTrackGapDetected(MovAvgResult(m_posMovAvg), NUM_LINE_SENSORS)

\* An OnTrack tick without gap in FindEndLine on which the detector has
\* reported the line.
EndLineTick ==
    /\ OnLineTick
    /\ call.lineStatus = LINE_STATUS_FIND_END_LINE
    /\ HasEvent(Ev("detect", 1, 1))

\* C12: on an OnTrack tick without gap, in FindEndLine and with the line
\* detected, the tick does exactly: stop the drive, beep, set TrackStatus
\* Finished, hand the elapsed time of the lap timer to the ready state; it
\* issues no steering command.
C12_EndLineFinishes ==
    EndLineTick =>
       /\ trace = <<Ev("detect", 1, 1), StopEvent, Ev("beep", 0, 0),
                    Ev("trackStatus", 0, FinishedRank),
                    Ev("setLapTime", TimerCurrentDuration(m_lapTime), 0)>>
       /\ linearSpeed = <<0, 0>>
       /\ m_trackStatus = TRACK_STATUS_FINISHED
       /\ readyLapTime = TimerCurrentDuration(m_lapTime)
       /\ ~Has("calculate")

\* C12 witness: a lap that took some time is finished on the end line, on a
\* tick on which the PID period has elapsed.
C12_Witness ==
    /\ EndLineTick
    /\ readyLapTime > 0
    /\ TimerIsTimeout(m_pidProcessTime)
    /\ m_trackStatus = TRACK_STATUS_FINISHED

\* An OnTrack tick without gap in FindStartLine whose values match the
\* crossing condition for the third consecutive evaluation of the detector
\* (the counter stood at DEBOUNCE_CNT - 1 or more).
StartLineTick ==
    /\ OnLineTick
    /\ call.lineStatus = LINE_STATUS_FIND_START_LINE
    /\ LineCrossing(call.values)
    /\ call.debounce >= DEBOUNCE_CNT - 1

\* C13: on such a tick LineStatus advances to StartLineDetected, one beep
\* is emitted and the lap timer is started from zero, in that tick; the
\* switch leaves TrackStatus OnTrack (only the observation cutoff of the same
\* tick can finish the attempt) and steering goes on: the tick steers
\* unless the PID period has not elapsed.
C13_StartLineDetected ==
    StartLineTick =>
       /\ Len(trace) >= 3
       /\ SubSeq(trace, 1, 3) = <<Ev("detect", 1, 1), Ev("lineStatus", 0, 1), Ev("beep", 0, 0)>>
       /\ Count("beep") = 1
       /\ m_lineStatus = LINE_STATUS_START_LINE_DETECTED
       /\ m_lapTime = TimerStart(0)
       /\ ~Has("setLapTime")
       /\ \A i \in DOMAIN trace :
             trace[i].e = "trackStatus" =>
                (call.observationTimeout /\ trace[i] = Ev("trackStatus", 0, FinishedRank))
       /\ m_trackStatus = IF call.observationTimeout THEN TRACK_STATUS_FINISHED
                          ELSE TRACK_STATUS_ON_TRACK
       /\ ~Has("calculate") => ~TimerIsTimeout(m_pidProcessTime)
       /\ Has("calculate") =>
             /\ Len(trace) >= 5
             /\ trace[4].e = "calculate"
             /\ trace[5].e = "drive"
             /\ m_pidProcessTime = TimerStart(PID_PROCESS_PERIOD)
       /\ \A i \in DriveIndexes : trace[i] = StopEvent => call.observationTimeout

\* C13 witness: the third matching tick in a row has found the start line,
\* steered and left the attempt on track.
C13_Witness ==
    /\ StartLineTick
    /\ call.debounce = DEBOUNCE_CNT - 1
    /\ m_startEndLineDebounce = DEBOUNCE_CNT
    /\ Has("calculate")
    /\ m_trackStatus = TRACK_STATUS_ON_TRACK
    /\ linearSpeed # <<0, 0>>

\* The last call was the gap test; the number of channels it read, the
\* value it returned and the value the definition of the gap gives.
GapCall == call.op = "isTrackGapDetected"
GapChannels == trace[1].a
GapReturned == trace[1].b = 1
GapExpected == call.position <= 0 \/ call.position >= (GapChannels - 1) * 1000

\* The members of the driving state and its collaborators are as constructed.
AsConstructed ==
    \E w \in {InitWorld(maxMotorSpeed)} :
       StateIs([w EXCEPT !.log = trace])

\* C14 as claimed: for every number of channels n >= 2 and every 16 bit
\* position p, isTrackGapDetected(p) is true exactly when p <= 0 or
\* p >= (n - 1) * 1000, and the call changes no state.
C14_GapTestAnyCount ==
    GapCall => ((GapReturned <=> GapExpected) /\ AsConstructed)

\* C14 amended: the same for every number of channels n >= 2 whose
\* (n - 1) * 1000 fits the int16_t POS_MAX, that is n <= 33: in particular
\* true for 0 and for (n - 1) * 1000, false for (n - 1) * 500; and no call,
\* whatever n, changes any state.
C14_GapTest ==
    GapCall =>
       /\ (GapChannels - 1) * 1000 <= 32767 =>
             /\ GapReturned <=> GapExpected
             /\ call.position \in {0, (GapChannels - 1) * 1000} => GapReturned
             /\ call.position = (GapChannels - 1) * 500 => ~GapReturned
       /\ AsConstructed

\* C14 witness: the position at the right edge of 33 channels, the largest
\* number whose right edge fits, is a gap.
C14_Witness ==
    /\ GapCall
    /\ GapChannels = 33
    /\ call.position = 32000
    /\ GapReturned

\* The last call was an iteration of the scheduler loop.
LoopTick == call.op = "loop"

\* C15: in every iteration that finds the control interval elapsed the
\* drive is actuated, then the odometry is updated, then the control timer
\* is restarted, one directly after the other and once each; in every other
\* iteration none of the three happens, so the odometry is never updated
\* without the drive having been actuated before it.
C15_ControlOrder ==
    LoopTick =>
       /\ call.controlTimeout =>
             /\ \E i \in 1 .. (Len(trace) - 2) :
                   /\ trace[i] = Ev("driveProcess", DIFFERENTIAL_DRIVE_CONTROL_PERIOD, 0)
                   /\ trace[i + 1].e = "odometryProcess"
                   /\ trace[i + 2].e = "controlRestart"
             /\ Count("driveProcess") = 1
             /\ Count("odometryProcess") = 1
             /\ Count("controlRestart") = 1
             /\ m_controlInterval = TimerStart(DIFFERENTIAL_DRIVE_CONTROL_PERIOD)
       /\ ~call.controlTimeout =>
             /\ ~Has("driveProcess")
             /\ ~Has("odometryProcess")
             /\ ~Has("controlRestart")
       /\ \A i \in DOMAIN trace :
             trace[i].e = "odometryProcess" =>
                \E j \in 1 .. (i - 1) : trace[j].e = "driveProcess"

\* C15 witness: the control step has run in an iteration in which the
\* driving state steered.
C15_Witness ==
    /\ LoopTick
    /\ call.controlTimeout
    /\ Has("odometryProcess")
    /\ Has("calculate")

\* The calls the loop makes before it advances the outer state.
LoopOwnEvents ==
    {"smpProcess", "speedometer", "driveProcess", "odometryProcess", "controlRestart",
     "sendData", "reportRestart"}

\* C16: every iteration calls the state machine exactly once, which makes
\* the active state do exactly one step, whether or not the control or the
\* report timer elapsed; the call comes after the processing of inbound
\* commands (with the drive command of the callback), the speedometer, the
\* control step and the report, and nothing of the loop follows it.
C16_OuterStateLast ==
    LoopTick =>
       /\ Count("smProcess") = 1
       /\ Count("stateProcess") = 1
       /\ Count("smpProcess") = 1
       /\ Count("speedometer") = 1
       /\ \A i, j \in DOMAIN trace :
             (trace[j].e = "smProcess" /\ trace[i].e \in LoopOwnEvents) => i < j
       /\ \A i, j \in DOMAIN trace :
             (trace[j].e = "smProcess" /\ trace[i].e = "stateProcess") => j < i
       /\ \A i, j \in DOMAIN trace :
             (trace[j].e = "speedometer" /\ i < j) => trace[i].e \in {"smpProcess", "drive"}

\* C16 witness: an iteration with neither timer elapsed has made the
\* driving state steer.
C16_Witness ==
    /\ LoopTick
    /\ ~call.controlTimeout
    /\ ~call.reportTimeout
    /\ call.smState = "Driving"
    /\ Has("calculate")

\* C17: without a telemetry channel (id 0) the report timer is never
\* started and no iteration sends a snapshot, while the control step and
\* the outer state go on; with a channel a snapshot is sent on that channel
\* exactly in the iterations that find the report timer elapsed, and the
\* report timer is restarted directly after.
C17_ReportNeedsChannel ==
    /\ m_serialMuxProtChannelIdCurrentVehicleData = 0 => m_reportTimer = TimerInit
    /\ LoopTick =>
          /\ m_serialMuxProtChannelIdCurrentVehicleData = 0 =>
                /\ ~Has("sendData")
                /\ ~Has("reportRestart")
                /\ call.controlTimeout => (Has("driveProcess") /\ Has("odometryProcess"))
                /\ Count("stateProcess") = 1
          /\ m_serialMuxProtChannelIdCurrentVehicleData # 0 =>
                /\ Has("sendData") <=> call.reportTimeout
                /\ Has("reportRestart") <=> call.reportTimeout
                /\ Count("sendData") <= 1
                /\ call.reportTimeout =>
                      /\ \E i \in 1 .. (Len(trace) - 1) :
                            /\ trace[i] = Ev("sendData", m_serialMuxProtChannelIdCurrentVehicleData, 0)
                            /\ trace[i + 1].e = "reportRestart"
                      /\ m_reportTimer = TimerStart(REPORTING_PERIOD)

\* C17 witness: without a channel an attempt has been driven to its end by
\* the observation timer and the control step still runs.
C17_Witness ==
    /\ LoopTick
    /\ m_serialMuxProtChannelIdCurrentVehicleData = 0
    /\ call.controlTimeout
    /\ Has("odometryProcess")
    /\ call.trackStatus = TRACK_STATUS_FINISHED
    /\ call.smState = "Driving"

\* A command is well-formed: the payload is there and has the size of
\* SpeedData.  The speeds it carries, as two little endian 16 bit values.
WellFormed(command) ==
    (~command.isNull) /\ command.payloadSize = SPEED_SETPOINT_CHANNEL_DLC
Carried(bytes, i) ==
    bytes[i] + 256 * bytes[i + 1] - (IF bytes[i + 1] >= 128 THEN 65536 ELSE 0)

\* The last call was the server's poll that found a command.
CommandPoll == call.op = "smpServerProcess"

\* C18: a poll that finds a command with a null payload or a wrong size
\* leaves the commanded speeds and every other variable as they were (the
\* callback calls nothing); a poll that finds a well-formed command hands
\* exactly the two speeds it carries to the drive, in that poll, and changes
\* nothing else.
C18_CommandHandling ==
    CommandPoll =>
       IF WellFormed(call.command)
       THEN LET left == Carried(call.command.bytes, 1)
                right == Carried(call.command.bytes, 3)
            IN  /\ trace = <<Ev("smpProcess", 0, 0), Ev("drive", left, right)>>
                /\ StateIs([call.before EXCEPT !.linearSpeed = <<left, right>>,
                                               !.log = trace])
       ELSE /\ trace = <<Ev("smpProcess", 0, 0)>>
            /\ StateIs([call.before EXCEPT !.log = trace])

\* C18 witness: a command one byte too long has been dropped after a
\* well-formed one had set the speeds, which are still commanded.
C18_Witness ==
    /\ CommandPoll
    /\ ~call.command.isNull
    /\ call.command.payloadSize = SPEED_SETPOINT_CHANNEL_DLC + 1
    /\ call.before.linearSpeed = <<32767, -32768>>
    /\ linearSpeed = <<32767, -32768>>

\* C19: in an iteration that finds the driving state active every speed
\* command that reaches the drive, from the callback or from the tick of
\* the driving state, has both speeds in [0, topSpeed].
C19_DriveCommandsBounded ==
    (LoopTick /\ call.smState = "Driving") =>
       \A i \in DriveIndexes :
          /\ 0 <= trace[i].a /\ trace[i].a <= m_topSpeed
          /\ 0 <= trace[i].b /\ trace[i].b <= m_topSpeed

\* C20: after exit the observation timer is stopped and the yellow LED is
\* disabled, whatever the state the attempt ended in; exit calls nothing
\* but the LED and leaves TrackStatus, LineStatus and the commanded speeds
\* as they were.
C20_ExitReleases ==
    call.op = "exit" =>
       /\ ~m_observationTimer.running
       /\ ~TimerIsTimeout(m_observationTimer)
       /\ ~yellowLed
       /\ trace = <<Ev("led", 0, 0)>>
       /\ m_trackStatus = call.trackStatus
       /\ m_lineStatus = call.lineStatus
       /\ linearSpeed = call.linearSpeed

\* C20 witness: exit from an attempt that finished while the track was
\* lost, with the yellow LED on and the observation timer elapsed.
C20_Witness ==
    /\ call.op = "exit"
    /\ call.yellowLed
    /\ call.observationTimeout
    /\ call.trackStatus = TRACK_STATUS_FINISHED
    /\ ~yellowLed

\* C21: after entry, whatever the state before it, LineStatus is
\* FindStartLine, TrackStatus is OnTrack, the observation timer runs with
\* OBSERVATION_DURATION to go, the PID timer has already elapsed, the PID
\* history is cleared, the PID limits are -maxMotorSpeed and maxMotorSpeed
\* and derivative on measurement is on; entry calls no collaborator.
C21_EntryResets ==
    call.op = "entry" =>
       /\ m_lineStatus = LINE_STATUS_FIND_START_LINE
       /\ m_trackStatus = TRACK_STATUS_ON_TRACK
       /\ m_observationTimer.running
       /\ m_observationTimer.remaining = OBSERVATION_DURATION
       /\ ~TimerIsTimeout(m_observationTimer)
       /\ TimerIsTimeout(m_pidProcessTime)
       /\ m_pidCtrl.history = "cleared"
       /\ m_pidCtrl.min = -maxMotorSpeed
       /\ m_pidCtrl.max = maxMotorSpeed
       /\ m_pidCtrl.derivativeOnMeasurement
       /\ m_posMovAvg = <<>>
       /\ trace = <<>>
       /\ smState = "Driving"

\* C21 witness: the driving state is entered again after an attempt that
\* was finished while a lap was being timed and the PID timer was running.
C21_Witness ==
    /\ call.op = "entry"
    /\ call.trackStatus = TRACK_STATUS_FINISHED
    /\ call.lineStatus = LINE_STATUS_FIND_END_LINE
    /\ ~call.pidTimeout
    /\ m_trackStatus = TRACK_STATUS_ON_TRACK
    /\ m_lineStatus = LINE_STATUS_FIND_START_LINE

\* C22: a process tick that starts with TrackStatus Finished requests the
\* ready state and calls nothing else: no drive command, no sound, no
\* change of TrackStatus, LineStatus, LED or commanded speeds; a process
\* tick that starts with another TrackStatus requests nothing, also when
\* it reaches Finished.
C22_FinishedRequestsReady ==
    ProcessTick =>
       /\ call.trackStatus = TRACK_STATUS_FINISHED =>
             /\ trace = <<Ev("setState", 0, 0)>>
             /\ smNext = "Ready"
             /\ m_trackStatus = TRACK_STATUS_FINISHED
             /\ m_lineStatus = call.lineStatus
             /\ linearSpeed = call.linearSpeed
             /\ yellowLed = call.yellowLed
             /\ m_startEndLineDebounce = call.debounce
       /\ call.trackStatus \in {TRACK_STATUS_ON_TRACK, TRACK_STATUS_LOST} =>
             /\ ~Has("setState")
             /\ smNext = "None"

\* C22 witness: the ready state is requested on the tick after an attempt
\* was finished with the track lost.
C22_Witness ==
    /\ ProcessTick
    /\ call.trackStatus = TRACK_STATUS_FINISHED
    /\ call.yellowLed
    /\ smNext = "Ready"

\* The switch of the tick finishes the lap on the end line.
FinishesOnEndLine ==
    /\ call.lineStatus = LINE_STATUS_FIND_END_LINE
    /\ LineCrossing(call.values)
    /\ call.debounce >= DEBOUNCE_CNT - 1

\* An OnTrack tick with sensor values, no gap in the filtered position and
\* the PID timer elapsed.
SteerTick ==
    /\ OnLineTick
    /\ call.pidTimeout

\* What a tick that steers does: one calculate with the raw position of
\* the tick, and the PID timer started again with the PID period.
SteersOnce ==
    /\ Count("calculate") = 1
    /\ \A i \in DOMAIN trace :
          trace[i].e = "calculate" =>
             /\ trace[i].b = call.position
             /\ i < Len(trace)
             /\ trace[i + 1].e = "drive"
    /\ (~call.observationTimeout) => m_pidProcessTime = TimerStart(PID_PROCESS_PERIOD)
    /\ m_pidProcessTime.remaining = PID_PROCESS_PERIOD

LostSearchTick ==
    /\ ProcessTick
    /\ call.trackStatus = TRACK_STATUS_LOST
    /\ call.values # NullValues
    /\ isTrackGapDetected(call.position, NUM_LINE_SENSORS)
    /\ call.mileage <= MAX_DISTANCE

\* C25: on every Lost tick with a gap in the raw position and a mileage of
\* at most MAX_DISTANCE both wheels are commanded to topSpeed and nothing
\* else is done: TrackStatus stays Lost and the yellow LED stays on (only
\* the observation cutoff of the same tick can finish the attempt).
C25_StraightSearch ==
    LostSearchTick =>
       /\ Len(trace) >= 1
       /\ trace[1] = Ev("drive", m_topSpeed, m_topSpeed)
       /\ yellowLed
       /\ mileage = call.mileage
       /\ ~Has("resync")
       /\ IF call.observationTimeout
          THEN /\ trace = <<Ev("drive", m_topSpeed, m_topSpeed),
                            Ev("trackStatus", 1, FinishedRank), StopEvent, Ev("alarm", 0, 0)>>
               /\ m_trackStatus = TRACK_STATUS_FINISHED
          ELSE /\ trace = <<Ev("drive", m_topSpeed, m_topSpeed)>>
               /\ m_trackStatus = TRACK_STATUS_LOST
               /\ linearSpeed = <<m_topSpeed, m_topSpeed>>

\* C25 witness: the search goes on with the mileage exactly at
\* MAX_DISTANCE.
C25_Witness ==
    /\ LostSearchTick
    /\ call.mileage = MAX_DISTANCE
    /\ ~call.observationTimeout
    /\ m_trackStatus = TRACK_STATUS_LOST
    /\ linearSpeed = <<m_topSpeed, m_topSpeed>>

\* A Lost tick with sensor values whose raw position shows no gap.
LostRecoverTick ==
    /\ ProcessTick
    /\ call.trackStatus = TRACK_STATUS_LOST
    /\ call.values # NullValues
    /\ ~isTrackGapDetected(call.position, NUM_LINE_SENSORS)

\* C26: on a Lost tick without gap in the raw position TrackStatus becomes
\* OnTrack, the PID is resynced and the yellow LED disabled, whatever the
\* mileage; the tick issues no stop, no alarm and no drive command (only
\* the observation cutoff of the same tick can stop the drive).
C26_RecoveryFirst ==
    LostRecoverTick =>
       /\ Len(trace) >= 3
       /\ SubSeq(trace, 1, 3) = <<Ev("trackStatus", 1, 0), Ev("resync", 0, 0), Ev("led", 0, 0)>>
       /\ ~yellowLed
       /\ mileage = call.mileage
       /\ IF call.observationTimeout
          THEN /\ SubSeq(trace, 4, Len(trace)) =
                     <<Ev("trackStatus", 0, FinishedRank), StopEvent, Ev("alarm", 0, 0)>>
               /\ m_trackStatus = TRACK_STATUS_FINISHED
          ELSE /\ Len(trace) = 3
               /\ m_trackStatus = TRACK_STATUS_ON_TRACK
               /\ linearSpeed = call.linearSpeed
               /\ ~Has("alarm")
               /\ ~Has("drive")

\* C26 witness: the track is found again after the robot has driven beyond
\* MAX_DISTANCE, before the observation timer has elapsed.
C26_Witness ==
    /\ LostRecoverTick
    /\ call.mileage > MAX_DISTANCE
    /\ ~call.observationTimeout
    /\ m_trackStatus = TRACK_STATUS_ON_TRACK
    /\ ~Has("alarm")

\* A process tick that finds a TrackStatus that is none of OnTrack, Lost
\* and Finished.
InvalidTick ==
    /\ ProcessTick
    /\ call.trackStatus \notin TrackStatus

\* C23: a process tick whose TrackStatus is none of OnTrack, Lost and
\* Finished commands the drive to stop, sounds the alarm and requests the
\* ready state, in this order and in this tick; it issues no steering and
\* no search command, whatever the sensor values; the only commands that
\* can follow are those of the observation cutoff (stop and alarm again).
C23_InvalidStatusStops ==
    InvalidTick =>
       /\ Len(trace) >= 3
       /\ SubSeq(trace, 1, 3) = <<StopEvent, Ev("alarm", 0, 0), Ev("setState", 0, 0)>>
       /\ smNext = "Ready"
       /\ linearSpeed = <<0, 0>>
       /\ ~Has("calculate")
       /\ ~Has("detect")
       /\ \A i \in DriveIndexes : trace[i] = StopEvent
       /\ m_lineStatus = call.lineStatus
       /\ IF call.observationTimeout
          THEN /\ SubSeq(trace, 4, Len(trace)) =
                     <<Ev("trackStatus", TrackRank(TRACK_STATUS_INVALID), FinishedRank),
                       StopEvent, Ev("alarm", 0, 0)>>
               /\ m_trackStatus = TRACK_STATUS_FINISHED
          ELSE /\ Len(trace) = 3
               /\ m_trackStatus = call.trackStatus

\* C23 witness: the tick finds the invalid status while the robot is
\* driving on the line with sensor values at hand and the observation timer
\* still running.
C23_Witness ==
    /\ InvalidTick
    /\ call.values = OnLine
    /\ call.linearSpeed # <<0, 0>>
    /\ ~call.observationTimeout
    /\ smNext = "Ready"

\* An evaluation of the detector alone.
CrossingCall == call.op = "isStartEndLineDetected"

\* The average of the interior channels of the last call, in unbounded
\* integers.
InteriorAverage == (call.values[2] + call.values[3] + call.values[4]) \div 3

\* C29: the crossing condition of an evaluation holds exactly when the
\* leftmost channel, the rightmost channel and the truncating average of
\* the three interior channels are each at least 200; the sum of the
\* interior channels stays below 2^16 for channel values up to the sensor
\* maximum; the counter counts the evaluation if and only if it matches,
\* and a non-matching evaluation reports nothing.
C29_CrossingCondition ==
    CrossingCall =>
       /\ Len(trace) = 1
       /\ trace[1].e = "detect"
       /\ (trace[1].a = 1) <=>
             /\ call.values[1] >= 200
             /\ call.values[5] >= 200
             /\ InteriorAverage >= 200
       /\ call.values[2] + call.values[3] + call.values[4] < 65536
       /\ call.values = NearCross => trace[1].a = 0
       /\ m_startEndLineDebounce = trace[1].a
       /\ trace[1].a = 0 => trace[1].b = 0

\* C29 witness: the condition holds with one interior channel below the
\* threshold, carried by the average of the three, and every channel value
\* up to the sensor maximum has been tried.
C29_Witness ==
    /\ CrossingCall
    /\ call.values = <<200, 0, SENSOR_VALUE_MAX, 0, SENSOR_VALUE_MAX>>
    /\ trace[1].a = 1

\* The speed of the wheel that is slowed down by a difference d.
SlowedSpeed(d) ==
    LET magnitude == IF d < 0 THEN -d ELSE d
    IN  IF m_topSpeed - magnitude > 0 THEN m_topSpeed - magnitude ELSE 0

\* C30: for every top speed >= 0 and every speed difference d the steering
\* computation commands one wheel at exactly topSpeed and the other at
\* max(0, topSpeed - |d|): the right wheel is at topSpeed when d >= 0 and
\* the left wheel when d <= 0.
C30_OneWheelAtTopSpeed ==
    call.op = "adaptDriving" =>
       /\ call.speedDifference >= 0 =>
             linearSpeed = <<SlowedSpeed(call.speedDifference), m_topSpeed>>
       /\ call.speedDifference <= 0 =>
             linearSpeed = <<m_topSpeed, SlowedSpeed(call.speedDifference)>>

\* C28: the setpoint handed to the PID controller is the midpoint of the
\* position range, (numSensors - 1) * 1000 / 2, for every number of
\* channels and every per-channel maximum the line sensors report, and the
\* process variable is the raw position of the tick.
C28_SetpointIsMidpoint ==
    call.op = "adaptDriving" =>
       /\ Count("calculate") = 1
       /\ \A i \in DOMAIN trace :
             trace[i].e = "calculate" =>
                /\ trace[i].a = ((call.numLineSensors - 1) * 1000) \div 2
                /\ trace[i].b = call.position

\* The positions of the detector's evaluations in the history.
DetectIndexes == {i \in DOMAIN trace : trace[i].e = "detect"}

\* Between the positions i and j of the history there is a non-matching
\* evaluation followed by three matching ones with no evaluation between
\* them.
RearmedBetween(i, j) ==
    \E k \in DetectIndexes, m1 \in DetectIndexes, m2 \in DetectIndexes, m3 \in DetectIndexes :
       /\ i < k /\ k < m1 /\ m1 < m2 /\ m2 < m3 /\ m3 < j
       /\ trace[k].a = 0
       /\ trace[m1].a = 1 /\ trace[m2].a = 1 /\ trace[m3].a = 1
       /\ \A x \in DetectIndexes : (m1 <= x /\ x <= m3) => x \in {m1, m2, m3}

\* C27: LineStatus leaves StartLineDetected for FindEndLine only right
\* after an evaluation of the detector that did not match (and so reported
\* nothing), on an OnTrack tick without gap; and between the detection of
\* the start line and the finish on the end line there is at least one
\* non-matching evaluation followed by 3 consecutive matching ones.
C27_OneCrossingOneLine ==
    /\ \A i \in DOMAIN trace :
          trace[i] = Ev("lineStatus", 1, 2) =>
             /\ i > 1
             /\ trace[i - 1] = Ev("detect", 0, 0)
    /\ (ProcessTick /\ call.lineStatus = LINE_STATUS_START_LINE_DETECTED
          /\ m_lineStatus # call.lineStatus) =>
             /\ OnLineTick
             /\ ~LineCrossing(call.values)
             /\ m_lineStatus = LINE_STATUS_FIND_END_LINE
             /\ m_startEndLineDebounce = 0
    /\ m_lineStatus = LINE_STATUS_START_LINE_DETECTED => m_startEndLineDebounce = DEBOUNCE_CNT
    /\ \A i \in DOMAIN trace, j \in DOMAIN trace :
          (i < j /\ trace[i] = Ev("lineStatus", 0, 1) /\ trace[j].e = "setLapTime") =>
             RearmedBetween(i, j)

\* C27 witness: a lap is finished on the end line after the start line was
\* detected and the track was lost and found again in between.
C27_Witness ==
    /\ ProcessTick
    /\ m_trackStatus = TRACK_STATUS_FINISHED
    /\ HasEvent(Ev("lineStatus", 0, 1))
    /\ HasEvent(Ev("lineStatus", 1, 2))
    /\ HasEvent(Ev("trackStatus", 1, 0))
    /\ trace[Len(trace)].e = "setLapTime"

\* C31: with the yellow LED off before the first entry, after every
\* process tick TrackStatus OnTrack implies the LED is off and TrackStatus
\* Lost implies it is on; the LED is on with TrackStatus Finished only
\* when the attempt was finished from Lost (in this tick, or in an earlier
\* one that left the LED on); entry, the passing of time and a Finished
\* tick leave the LED as it is, and exit switches it off.
C31_IndicatorFollowsTrack ==
    /\ ProcessTick =>
          /\ m_trackStatus = TRACK_STATUS_ON_TRACK => ~yellowLed
          /\ m_trackStatus = TRACK_STATUS_LOST => yellowLed
          /\ (m_trackStatus = TRACK_STATUS_FINISHED /\ yellowLed) =>
                \/ HasEvent(Ev("trackStatus", 1, FinishedRank))
                \/ call.trackStatus = TRACK_STATUS_FINISHED /\ call.yellowLed
          /\ (m_trackStatus = TRACK_STATUS_FINISHED /\ ~yellowLed) =>
                ~HasEvent(Ev("trackStatus", 1, FinishedRank))
    /\ call.op \in {"entry", "advance"} => yellowLed = call.yellowLed
    /\ call.op = "entry" => ~yellowLed
    /\ call.op = "exit" => ~yellowLed

\* C31 witness: a tick that starts OnTrack loses the track, which switches
\* the LED on, and is finished by the observation timer from Lost.
C31_Witness ==
    /\ ProcessTick
    /\ call.trackStatus = TRACK_STATUS_ON_TRACK
    /\ ~call.yellowLed
    /\ m_trackStatus = TRACK_STATUS_FINISHED
    /\ yellowLed
    /\ HasEvent(Ev("trackStatus", 1, FinishedRank))

\* A process tick in which TrackStatus became Finished.
FinishingTick ==
    /\ ProcessTick
    /\ call.trackStatus # TRACK_STATUS_FINISHED
    /\ m_trackStatus = TRACK_STATUS_FINISHED

\* C32: in every tick in which TrackStatus becomes Finished (end line,
\* distance abort or observation timeout) the last drive command of the
\* tick is stop (0,0); from then on until the next entry no step of the
\* driving state issues a drive command, so the commanded speeds stay
\* (0,0) while TrackStatus is Finished.
C32_FinishedStaysStopped ==
    /\ FinishingTick =>
          /\ LastDriveIsStop
          /\ Count("trackStatus") >= 1
          /\ EndLineFinish \/ CutoffFired \/ DispatchFinished
    /\ m_trackStatus = TRACK_STATUS_FINISHED =>
          /\ linearSpeed = <<0, 0>>
          /\ (call.op \in {"process", "exit", "advance"} /\ ~FinishingTick) => DriveIndexes = {}
    /\ call.op = "entry" => DriveIndexes = {}

\* C32 witness: the driving state has been left after an attempt that was
\* finished by the distance abort while the robot was searching at top
\* speed; the drive is still stopped.
C32_Witness ==
    /\ call.op = "exit"
    /\ call.yellowLed
    /\ m_trackStatus = TRACK_STATUS_FINISHED
    /\ linearSpeed = <<0, 0>>
    /\ mileage > MAX_DISTANCE

\* C33: a lap duration is handed to the ready state only on the tick that
\* finishes on the end line, once in that tick, and it is the current
\* duration of the lap timer, which is running since the start line was
\* detected (the timer runs whenever LineStatus has left FindStartLine);
\* that tick ends Finished, so there is no second one before the next
\* entry.  Every other step (a tick that ends by distance abort or
\* observation timeout, a Finished tick, entry, exit, time passing) leaves
\* the lap time stored in the ready state unchanged.
C33_LapTimeOnEndLineOnly ==
    /\ Has("setLapTime") =>
          /\ EndLineTick
          /\ Count("setLapTime") = 1
          /\ m_trackStatus = TRACK_STATUS_FINISHED
          /\ m_lapTime.running
          /\ readyLapTime = TimerCurrentDuration(m_lapTime)
          /\ HasEvent(Ev("setLapTime", TimerCurrentDuration(m_lapTime), 0))
    /\ ~Has("setLapTime") => readyLapTime = call.readyLapTime
    /\ EndLineTick => Has("setLapTime")
    /\ (smState = "Driving" /\ m_lineStatus # LINE_STATUS_FIND_START_LINE) => m_lapTime.running
    /\ (ProcessTick /\ call.trackStatus = TRACK_STATUS_FINISHED) => ~Has("setLapTime")

\* C33 witness: an attempt that follows a timed lap is ended by the
\* observation timer while its own lap timer is running and shows another
\* duration; the lap time of the earlier attempt is still stored.
C33_Witness ==
    /\ FinishingTick
    /\ CutoffFired
    /\ ~Has("setLapTime")
    /\ m_lapTime.running
    /\ readyLapTime > 0
    /\ TimerCurrentDuration(m_lapTime) # readyLapTime

\* An OnTrack or Lost tick on which the line sensors hand out no values.
NullTick ==
    /\ ProcessTick
    /\ call.trackStatus \in {TRACK_STATUS_ON_TRACK, TRACK_STATUS_LOST}
    /\ call.values = NullValues

\* C35: an OnTrack or Lost tick without sensor values writes the position
\* to the filter and does nothing in the switch: LineStatus, the debounce
\* counter, the yellow LED and the mileage are unchanged and there is no
\* PID computation, no resync and no evaluation of the detector; with the
\* observation timer not elapsed TrackStatus and the commanded speeds are
\* unchanged too and the tick calls nothing; with the timer elapsed the
\* cutoff sets Finished, stops the drive and sounds the alarm.
C35_NullValuesSkipSwitch ==
    NullTick =>
       /\ m_posMovAvg # <<>>
       /\ m_posMovAvg[Len(m_posMovAvg)] = call.position
       /\ m_lineStatus = call.lineStatus
       /\ m_startEndLineDebounce = call.debounce
       /\ yellowLed = call.yellowLed
       /\ mileage = call.mileage
       /\ readyLapTime = call.readyLapTime
       /\ TimerIsTimeout(m_pidProcessTime) = call.pidTimeout
       /\ ~Has("calculate") /\ ~Has("resync") /\ ~Has("detect")
       /\ IF call.observationTimeout
          THEN /\ trace = <<Ev("trackStatus", TrackRank(call.trackStatus), FinishedRank),
                            StopEvent, Ev("alarm", 0, 0)>>
               /\ m_trackStatus = TRACK_STATUS_FINISHED
               /\ linearSpeed = <<0, 0>>
          ELSE /\ trace = <<>>
               /\ m_trackStatus = call.trackStatus
               /\ linearSpeed = call.linearSpeed

\* C35 witness: the robot is searching the lost track at top speed beyond
\* the distance budget and with a position back on the line when a tick
\* finds no sensor values; it neither recovers nor aborts.
C35_Witness ==
    /\ NullTick
    /\ call.trackStatus = TRACK_STATUS_LOST
    /\ call.mileage > MAX_DISTANCE
    /\ ~isTrackGapDetected(call.position, NUM_LINE_SENSORS)
    /\ ~call.observationTimeout
    /\ m_trackStatus = TRACK_STATUS_LOST
    /\ linearSpeed = <<m_topSpeed, m_topSpeed>>
    /\ m_topSpeed > 0

\* C36: once TrackStatus is Finished the drive's commanded speeds stay
\* (0,0) through every following iteration of the scheduler for as long as
\* the driving state is the active one, also through an iteration in which
\* a well-formed speed setpoint command is handled before the step of the
\* state.
C36_FinishedHoldsStop ==
    (smState = "Driving" /\ m_trackStatus = TRACK_STATUS_FINISHED) => linearSpeed = <<0, 0>>

\* The attempt is going on / has been finished with the drive stopped.
AttemptRunning == smState = "Driving" /\ m_trackStatus # TRACK_STATUS_FINISHED
AttemptStopped ==
    /\ smState = "Driving"
    /\ m_trackStatus = TRACK_STATUS_FINISHED
    /\ linearSpeed = <<0, 0>>

\* The tick after the finishing one has requested the ready state.
ReadyRequested ==
    /\ ProcessTick
    /\ call.trackStatus = TRACK_STATUS_FINISHED
    /\ smNext = "Ready"
    /\ linearSpeed = <<0, 0>>

\* C34: with process called again and again and time passing, every
\* attempt, whatever the sensor values, positions and distances of its
\* ticks, eventually is Finished with the drive stopped, and then the next
\* tick requests the transition to the ready state.
C34_CutoffTerminates ==
    /\ AttemptRunning ~> AttemptStopped
    /\ AttemptStopped ~> ReadyRequested

\* C34 witness: the observation timer has finished an attempt that never
\* found the start line and never lost the track.
C34_Witness ==
    /\ FinishingTick
    /\ call.observationTimeout
    /\ call.trackStatus = TRACK_STATUS_ON_TRACK
    /\ m_lineStatus = LINE_STATUS_FIND_START_LINE
    /\ ~yellowLed
    /\ m_pidCtrl.history # "cleared"
    /\ linearSpeed = <<0, 0>>

============================================================================
